---- MODULE Spec2Model ----
(***************************************************************************)
(* The tree-walking evaluator of stang (evaluator package) as a state      *)
(* machine.  Go's recursion is made explicit: `stack` holds one activation *)
(* record per Go function that is running (Eval, evalProgram, ...), each   *)
(* with its position (`pc`) and locals; a step runs the top activation up  *)
(* to its next call of Eval or to its return.  Objects live in `heap` and  *)
(* are referred to by address, because the Go code shares and mutates      *)
(* them through pointers; Scope frames live in `scopes`.  The context's    *)
(* cancellation is the flag `cancelled`, set at any moment by Cancel.      *)
(***************************************************************************)
EXTENDS Integers, Sequences, FiniteSets, TLC

VARIABLES program, stack, heap, scopes, cancelled, status, result, steps,
          tokens, parser

vars == <<program, stack, heap, scopes, cancelled, status, result, steps,
          tokens, parser>>

\* Bound on the number of evaluator steps taken before the context is
\* cancelled (loops of the interpreted program need not terminate).
MaxSteps == 120

\* Bound on the number of further steps followed once it is cancelled.
MaxUnwind == 40

----------------------------------------------------------------------------
(* ast: node constructors.  NilNode is Go's nil ast.Node / ast.Expression. *)

NilNode == [kind |-> "nil"]
Program(stmts) == [kind |-> "Program", Statements |-> stmts]
ExpressionStatement(e) == [kind |-> "ExpressionStatement", Expression |-> e]
BlockStatement(stmts) == [kind |-> "BlockStatement", Statements |-> stmts]
ReturnStatement(e) == [kind |-> "ReturnStatement", ReturnValue |-> e]
DeleteStatement(e) == [kind |-> "DeleteStatement", Value |-> e]
Identifier(n) == [kind |-> "Identifier", Value |-> n]
LetStatement(n, e) == [kind |-> "LetStatement", Name |-> Identifier(n), Value |-> e]
IntegerLiteral(v) == [kind |-> "IntegerLiteral", Value |-> v]
FloatLiteral(v) == [kind |-> "FloatLiteral", Value |-> v]
BooleanLiteral(b) == [kind |-> "BooleanLiteral", Value |-> b]
NullExpression == [kind |-> "NullExpression"]
FunctionLiteral(ps, body) ==
    [kind |-> "FunctionLiteral", Parameters |-> ps, Body |-> body]
PrefixExpression(op, r) == [kind |-> "PrefixExpression", Operator |-> op, Right |-> r]
InfixExpression(l, op, r) ==
    [kind |-> "InfixExpression", Left |-> l, Operator |-> op, Right |-> r]
PostfixExpression(l, op) == [kind |-> "PostfixExpression", Left |-> l, Operator |-> op]
IfExpression(c, cons, alt) ==
    [kind |-> "IfExpression", Condition |-> c, Consequence |-> cons, Alternative |-> alt]
WhileExpression(c, body) == [kind |-> "WhileExpression", Condition |-> c, Body |-> body]
ForExpression(init, c, upd, body) ==
    [kind |-> "ForExpression", Init |-> init, Condition |-> c, Update |-> upd,
     Body |-> body]
BreakExpression == [kind |-> "BreakExpression"]
ContinueExpression == [kind |-> "ContinueExpression"]
AssignExpression(name, op, v) ==
    [kind |-> "AssignExpression", Name |-> name, Operator |-> op, Value |-> v]
CallExpression(f, args) == [kind |-> "CallExpression", Function |-> f, Arguments |-> args]
ArrayLiteral(elems) == [kind |-> "ArrayLiteral", Elements |-> elems]
IndexExpression(l, idx) == [kind |-> "IndexExpression", Left |-> l, Index |-> idx]
SliceExpression(start, end) == [kind |-> "SliceExpression", Start |-> start, End |-> end]
MethodCallExpression(obj, call) ==
    [kind |-> "MethodCallExpression", Object |-> obj, Call |-> call]

\* Pairs is a Go map keyed by the key nodes (pointers): one entry per pair
\* written, without any order.  It is held as the list of the pairs, whose
\* positions are only the entries' identities.
HashLiteral(pairs) == [kind |-> "HashLiteral", Pairs |-> pairs]

----------------------------------------------------------------------------
(* Object model.  An Object is an address into heap; NIL is Go's nil       *)
(* Object.  The singletons are allocated once, as the package variables.   *)

NIL == 0
NULL == 1
BREAK == 2
CONTINUE == 3
TRUEOBJ == 4
FALSEOBJ == 5

IntegerObj == "INTEGER"
FloatObj == "FLOAT"
BooleanObj == "BOOLEAN"
NullObj == "NULL"
ReturnValueObj == "RETURN_VALUE"
BreakObj == "BREAK"
ContinueObj == "CONTINUE"
ErrorObj == "ERROR"
FunctionObj == "FUNCTION"
BuiltinObj == "BUILTIN"
StringObj == "STRING"
ArrayObj == "ARRAY"
HashObj == "HASH"

\* The backing array of a Go slice of Objects: not an Object itself, it is
\* kept in the heap because slices share it.
BackingArray == "[]Object"

Obj(t, v) == [type |-> t, value |-> v]

\* The registry of builtin functions; the builtins that convert to and from
\* String and Float values (number, string, int, now) are outside the value
\* kinds modelled here.
builtins == [len |-> 6, print |-> 7]

InitHeap ==
    << Obj(NullObj, 0), Obj(BreakObj, 0), Obj(ContinueObj, 0),
       Obj(BooleanObj, TRUE), Obj(BooleanObj, FALSE),
       Obj(BuiltinObj, "len"), Obj(BuiltinObj, "print") >>

\* obj.Type(); only called on non-nil objects (the callers fault on NIL).
Type(h, o) == h[o].type

\* &T{...}: a new object at a fresh address.
New(h, t, v) == [heap |-> Append(h, Obj(t, v)), ref |-> Len(h) + 1, panic |-> FALSE]

\* An existing object as the outcome of a function, and a host-level fault
\* (a Go runtime panic: nil dereference, index out of range).
Old(h, o) == [heap |-> h, ref |-> o, panic |-> FALSE]
Fault(h) == [heap |-> h, ref |-> NIL, panic |-> TRUE]

newError(h, t) == New(h, ErrorObj, t)

nativeBoolToBooleanObject(b) == IF b THEN TRUEOBJ ELSE FALSEOBJ

isNumber(h, o) == Type(h, o) = IntegerObj \/ Type(h, o) = FloatObj

isTruthy(h, o) ==
    IF o = NIL THEN TRUE
    ELSE IF Type(h, o) = BooleanObj THEN h[o].value
    ELSE IF Type(h, o) = NullObj THEN FALSE
    ELSE IF Type(h, o) = IntegerObj THEN h[o].value # 0
    ELSE IF Type(h, o) = FloatObj THEN h[o].value.n # 0 \/ h[o].value.d = 0
    ELSE TRUE

----------------------------------------------------------------------------
(* Scope: a frame is a store and a link to the parent frame (0 = nil).     *)
(* ABSENT marks a key that the store map does not hold.                    *)

Names == {"a", "b", "f", "g", "i", "x", "y", "u", "len", "print", ""}
ABSENT == -1

EmptyStore == [n \in Names |-> ABSENT]

NewScope(sc, parent) ==
    [scopes |-> Append(sc, [store |-> EmptyStore, parentScope |-> parent]),
     ref |-> Len(sc) + 1]

\* store[key] == nil in Go: the key is missing (or bound to a nil Object).
StoreNil(sc, s, key) == sc[s].store[key] = ABSENT \/ sc[s].store[key] = NIL

\* The frame at which the search loop of Get, Reset and Delete stops.
RECURSIVE Lookup(_, _, _)
Lookup(sc, s, key) ==
    IF StoreNil(sc, s, key) /\ sc[s].parentScope # 0
    THEN Lookup(sc, sc[s].parentScope, key)
    ELSE s

Get(sc, s, key) ==
    LET f == Lookup(sc, s, key) IN
    [v |-> IF sc[f].store[key] = ABSENT THEN NIL ELSE sc[f].store[key],
     ok |-> sc[f].store[key] # ABSENT]

\* A lookup that would also see the ancestors' bindings.
GetCurrentOrAncestor(sc, s, key) ==
    [v |-> Get(sc, s, key).v, ok |-> Get(sc, s, key).ok]

GetCurrent(sc, s, key) ==
    [v |-> IF sc[s].store[key] = ABSENT THEN NIL ELSE sc[s].store[key],
     ok |-> sc[s].store[key] # ABSENT]

Set(sc, s, key, value) == [sc EXCEPT ![s].store[key] = value]

\* A Reset that would bind in the current frame without searching.
ResetCurrent(sc, s, key, value) ==
    [scopes |-> Set(sc, s, key, value), ok |-> TRUE]

Reset(sc, s, key, value) ==
    LET f == Lookup(sc, s, key) IN
    IF sc[f].store[key] # ABSENT
    THEN [scopes |-> [sc EXCEPT ![f].store[key] = value], ok |-> TRUE]
    ELSE [scopes |-> sc, ok |-> FALSE]

\* A Delete that would remove the key from every frame.
DeleteAll(sc, s, key) ==
    LET f == Lookup(sc, s, key) IN
    [scopes |-> [g \in 1 .. Len(sc) |-> [sc[g] EXCEPT !.store[key] = ABSENT]],
     v |-> IF sc[f].store[key] = ABSENT THEN NIL ELSE sc[f].store[key],
     ok |-> sc[f].store[key] # ABSENT]

Delete(sc, s, key) ==
    LET f == Lookup(sc, s, key) IN
    IF sc[f].store[key] # ABSENT
    THEN [scopes |-> [sc EXCEPT ![f].store[key] = ABSENT],
          v |-> sc[f].store[key], ok |-> TRUE]
    ELSE [scopes |-> sc, v |-> NIL, ok |-> FALSE]

----------------------------------------------------------------------------
(* Operators on objects.  Each yields the heap after it and the object it  *)
(* returns; value arithmetic goes through float64 in the Go code, which is *)
(* exact for the magnitudes the step bound allows.                         *)

\* int64(x) of a float64 quotient: truncation towards zero.
TruncDiv(a, b) ==
    IF (a >= 0) = (b > 0) THEN (IF a >= 0 THEN a ELSE -a) \div (IF b > 0 THEN b ELSE -b)
    ELSE -((IF a >= 0 THEN a ELSE -a) \div (IF b > 0 THEN b ELSE -b))

\* math.Mod: the result takes the sign of the dividend.
TruncMod(a, b) == a - b * TruncDiv(a, b)

\* int64(NaN) is implementation-dependent in Go: the values the supported
\* targets produce (the minimum int64 on amd64, 0 on arm64).  MinInt64 is
\* the model's stand-in for -2^63, which the checker's integers cannot hold.
MinInt64 == -2147483647
NaNToInt64 == {MinInt64, 0}

(* A float64 value is held as the fraction n/d in lowest terms with d > 0, *)
(* or with d = 0 for the values that are not finite: 1/0 is +Inf, -1/0 is  *)
(* -Inf and 0/0 is NaN.  The operators follow IEEE 754 on these values;    *)
(* rounding does not occur for the magnitudes and the fractions (halves)   *)
(* the programs compute with, and a zero has no sign.                      *)

Abs(x) == IF x < 0 THEN -x ELSE x
Sign(x) == IF x < 0 THEN -1 ELSE IF x > 0 THEN 1 ELSE 0

RECURSIVE GCD(_, _)
GCD(a, b) == IF b = 0 THEN a ELSE GCD(b, a % b)

Float(n, d) ==
    IF d = 0 THEN [n |-> Sign(n), d |-> 0]
    ELSE LET g == GCD(Abs(n), Abs(d)) IN
         [n |-> Sign(d) * (n \div g), d |-> Abs(d) \div g]

NaN == [n |-> 0, d |-> 0]
IsNaN(a) == a.n = 0 /\ a.d = 0
IsInf(a) == a.n # 0 /\ a.d = 0

\* float64(i) of an int64.
float64(h, o) == IF Type(h, o) = IntegerObj THEN [n |-> h[o].value, d |-> 1]
                 ELSE h[o].value

FAdd(a, b) ==
    IF IsNaN(a) \/ IsNaN(b) THEN NaN
    ELSE IF IsInf(a) THEN (IF IsInf(b) /\ b.n # a.n THEN NaN ELSE a)
    ELSE IF IsInf(b) THEN b
    ELSE Float(a.n * b.d + b.n * a.d, a.d * b.d)

FNeg(a) == [n |-> -a.n, d |-> a.d]
FSub(a, b) == FAdd(a, FNeg(b))
FMul(a, b) == Float(a.n * b.n, a.d * b.d)

\* a / b: the sign of the divisor goes to the numerator, so that the
\* quotient by a zero or of an infinity keeps its sign.
FDiv(a, b) ==
    LET sg == IF b.n < 0 THEN -1 ELSE 1 IN
    Float(sg * a.n * b.d, sg * a.d * b.n)

FEq(a, b) == ~IsNaN(a) /\ ~IsNaN(b) /\ a = b
FLess(a, b) ==
    IF IsNaN(a) \/ IsNaN(b) THEN FALSE
    ELSE IF IsInf(a) /\ IsInf(b) THEN a.n < b.n
    ELSE a.n * b.d < b.n * a.d
FLessEq(a, b) == FLess(a, b) \/ FEq(a, b)

\* math.Mod(x, y)
FMod(x, y) ==
    IF IsNaN(x) \/ IsNaN(y) \/ IsInf(x) \/ y.n = 0 THEN NaN
    ELSE IF IsInf(y) THEN x
    ELSE LET q == FDiv(x, y) IN
         FSub(x, FMul(y, [n |-> TruncDiv(q.n, q.d), d |-> 1]))

One == [n |-> 1, d |-> 1]

\* needInt: both operands are Integers.  float64 holds their values, the
\* sums, differences and products exactly, and int64 of the float64 result
\* is the integer result; int64 of the quotient truncates it and math.Mod
\* is the remainder of that division (NaN for a zero divisor).
evalIntegerInfixExpression(h, lv, op, rv, nan) ==
    CASE op = "+" -> New(h, IntegerObj, lv + rv)
      [] op = "-" -> New(h, IntegerObj, lv - rv)
      [] op = "*" -> New(h, IntegerObj, lv * rv)
      [] op = "/" -> IF rv = 0 THEN newError(h, "DIVIDEBYZERO")
                     ELSE New(h, IntegerObj, TruncDiv(lv, rv))
      [] op = "%" -> IF rv = 0 THEN New(h, IntegerObj, nan)
                     ELSE New(h, IntegerObj, TruncMod(lv, rv))
      [] op = ">" -> Old(h, nativeBoolToBooleanObject(lv > rv))
      [] op = ">=" -> Old(h, nativeBoolToBooleanObject(lv >= rv))
      [] op = "<" -> Old(h, nativeBoolToBooleanObject(lv < rv))
      [] op = "<=" -> Old(h, nativeBoolToBooleanObject(lv <= rv))
      [] op = "==" -> Old(h, nativeBoolToBooleanObject(lv = rv))
      [] op = "!=" -> Old(h, nativeBoolToBooleanObject(lv # rv))
      [] OTHER -> newError(h, "INFIXOP")

\* One operand at least is a Float: the result of an arithmetic operator
\* is a Float.
evalFloatInfixExpression(h, lv, op, rv) ==
    CASE op = "+" -> New(h, FloatObj, FAdd(lv, rv))
      [] op = "-" -> New(h, FloatObj, FSub(lv, rv))
      [] op = "*" -> New(h, FloatObj, FMul(lv, rv))
      [] op = "/" -> IF rv.n = 0 /\ rv.d # 0 THEN newError(h, "DIVIDEBYZERO")
                     ELSE New(h, FloatObj, FDiv(lv, rv))
      [] op = "%" -> New(h, FloatObj, FMod(lv, rv))
      [] op = ">" -> Old(h, nativeBoolToBooleanObject(FLess(rv, lv)))
      [] op = ">=" -> Old(h, nativeBoolToBooleanObject(FLessEq(rv, lv)))
      [] op = "<" -> Old(h, nativeBoolToBooleanObject(FLess(lv, rv)))
      [] op = "<=" -> Old(h, nativeBoolToBooleanObject(FLessEq(lv, rv)))
      [] op = "==" -> Old(h, nativeBoolToBooleanObject(FEq(lv, rv)))
      [] op = "!=" -> Old(h, nativeBoolToBooleanObject(~FEq(lv, rv)))
      [] OTHER -> newError(h, "INFIXOP")

evalNumberInfixExpression(h, left, op, right, nan) ==
    IF Type(h, left) = IntegerObj /\ Type(h, right) = IntegerObj
    THEN evalIntegerInfixExpression(h, h[left].value, op, h[right].value, nan)
    ELSE evalFloatInfixExpression(h, float64(h, left), op, float64(h, right))

evalEquality(h, left, right) ==
    IF Type(h, left) # Type(h, right) THEN FALSE
    ELSE IF Type(h, left) = BooleanObj THEN h[left].value = h[right].value
    ELSE IF Type(h, left) = NullObj THEN TRUE
    ELSE IF Type(h, left) = IntegerObj THEN h[left].value = h[right].value
    ELSE IF Type(h, left) = FloatObj THEN FEq(h[left].value, h[right].value)
    ELSE FALSE

evalInfixExpression(h, left, op, right, nan) ==
    IF left = NIL THEN Fault(h)
    ELSE IF Type(h, left) = ErrorObj THEN Old(h, left)
    ELSE IF right = NIL THEN Fault(h)
    ELSE IF Type(h, right) = ErrorObj THEN Old(h, right)
    ELSE IF op = "&&"
         THEN Old(h, nativeBoolToBooleanObject(isTruthy(h, left) /\ isTruthy(h, right)))
    ELSE IF op = "||"
         THEN Old(h, nativeBoolToBooleanObject(isTruthy(h, left) \/ isTruthy(h, right)))
    ELSE IF isNumber(h, left) /\ isNumber(h, right)
         THEN evalNumberInfixExpression(h, left, op, right, nan)
    ELSE IF op = "==" THEN Old(h, nativeBoolToBooleanObject(evalEquality(h, left, right)))
    ELSE IF op = "!=" THEN Old(h, nativeBoolToBooleanObject(~evalEquality(h, left, right)))
    ELSE newError(h, "INFIXOP")

evalBangExpression(h, right) ==
    IF right = TRUEOBJ THEN FALSEOBJ
    ELSE IF right = FALSEOBJ THEN TRUEOBJ
    ELSE IF right = NULL THEN TRUEOBJ
    ELSE IF Type(h, right) = IntegerObj
         THEN (IF h[right].value = 0 THEN TRUEOBJ ELSE FALSEOBJ)
    ELSE IF Type(h, right) = FloatObj
         THEN (IF h[right].value.n = 0 /\ h[right].value.d # 0 THEN TRUEOBJ ELSE FALSEOBJ)
    ELSE FALSEOBJ

evalMinusPrefixExpression(h, right) ==
    IF Type(h, right) = IntegerObj THEN New(h, IntegerObj, -h[right].value)
    ELSE IF Type(h, right) = FloatObj THEN New(h, FloatObj, FNeg(h[right].value))
    ELSE Old(h, NULL)

\* r.Value++ changes the operand object itself; the result is a new object.
evalIncrPrefixExpression(h, right) ==
    IF Type(h, right) = IntegerObj
    THEN New([h EXCEPT ![right].value = @ + 1], IntegerObj, h[right].value + 1)
    ELSE IF Type(h, right) = FloatObj
    THEN New([h EXCEPT ![right].value = FAdd(@, One)], FloatObj, FAdd(h[right].value, One))
    ELSE Old(h, NULL)

evalIncrPostfixExpression(h, left) ==
    IF Type(h, left) = IntegerObj
    THEN New([h EXCEPT ![left].value = @ + 1], IntegerObj, h[left].value)
    ELSE IF Type(h, left) = FloatObj
    THEN New([h EXCEPT ![left].value = FAdd(@, One)], FloatObj, h[left].value)
    ELSE Old(h, NULL)

evalDecrPrefixExpression(h, right) ==
    IF Type(h, right) = IntegerObj
    THEN New([h EXCEPT ![right].value = @ - 1], IntegerObj, h[right].value - 1)
    ELSE IF Type(h, right) = FloatObj
    THEN New([h EXCEPT ![right].value = FSub(@, One)], FloatObj, FSub(h[right].value, One))
    ELSE Old(h, NULL)

evalDecrPostfixExpression(h, left) ==
    IF Type(h, left) = IntegerObj
    THEN New([h EXCEPT ![left].value = @ - 1], IntegerObj, h[left].value)
    ELSE IF Type(h, left) = FloatObj
    THEN New([h EXCEPT ![left].value = FSub(@, One)], FloatObj, h[left].value)
    ELSE Old(h, NULL)

evalPrefixExpression(h, op, right) ==
    IF right = NIL THEN Fault(h)
    ELSE IF Type(h, right) = ErrorObj THEN Old(h, right)
    ELSE CASE op = "!" -> Old(h, evalBangExpression(h, right))
           [] op = "-" -> evalMinusPrefixExpression(h, right)
           [] op = "++" -> evalIncrPrefixExpression(h, right)
           [] op = "--" -> evalDecrPrefixExpression(h, right)
           [] OTHER -> newError(h, "PREFIXOP")

evalPostfixExpression(h, left, op) ==
    IF left = NIL THEN Fault(h)
    ELSE IF Type(h, left) = ErrorObj THEN Old(h, left)
    ELSE CASE op = "++" -> evalIncrPostfixExpression(h, left)
           [] op = "--" -> evalDecrPostfixExpression(h, left)
           [] OTHER -> newError(h, "POSTFIXOP")

evalIdentifier(h, sc, node, s) ==
    LET key == node.Value
        g == Get(sc, s, key)
    IN  IF g.ok THEN Old(h, g.v)
        ELSE IF key \in DOMAIN builtins THEN Old(h, builtins[key])
        ELSE newError(h, "UNKNOWNIDENT")

----------------------------------------------------------------------------
(* Arrays.  Array.Elements is a Go slice: a window (off, len, cap) on a    *)
(* backing array that other slices may share.                              *)

Slice(array, off, len, cap) == [array |-> array, off |-> off, len |-> len, cap |-> cap]

\* objects[idx], idx counted from 0 (the caller has checked the bounds).
ElementAt(h, objects, idx) == h[objects.array].value[objects.off + idx + 1]

\* The elements of the Array a, in order.
Elements(h, a) ==
    LET objects == h[a].value IN
    [k \in 1 .. objects.len |-> ElementAt(h, objects, k - 1)]

\* The capacity append gives the new backing array of a slice that is full.
GrowCap(cap) == IF cap = 0 THEN 1 ELSE 2 * cap

\* The capacity of make([]Object, 0) after n appends.
RECURSIVE CapAfter(_)
CapAfter(n) ==
    IF n = 0 THEN 0
    ELSE IF n - 1 < CapAfter(n - 1) THEN CapAfter(n - 1) ELSE GrowCap(CapAfter(n - 1))

\* &Array{Elements: elements} for the slice built by appending elems.
NewArray(h, elems) ==
    LET cap == CapAfter(Len(elems))
        backing == [k \in 1 .. cap |-> IF k <= Len(elems) THEN elems[k] ELSE NIL]
    IN  IF cap = 0 THEN New(h, ArrayObj, Slice(NIL, 0, 0, 0))
        ELSE New(Append(h, Obj(BackingArray, backing)), ArrayObj,
                 Slice(Len(h) + 1, 0, Len(elems), cap))

\* a.Elements = append(a.Elements, obj): in place while the capacity lasts,
\* else into a new backing array that holds a copy of the elements.
AppendObject(h, a, obj) ==
    LET e == h[a].value IN
    IF e.len < e.cap
    THEN [h EXCEPT ![e.array].value[e.off + e.len + 1] = obj, ![a].value.len = e.len + 1]
    ELSE LET cap == GrowCap(e.cap)
             backing == [k \in 1 .. cap |->
                            IF k <= e.len THEN ElementAt(h, e, k - 1)
                            ELSE IF k = e.len + 1 THEN obj ELSE NIL]
         IN  Append([h EXCEPT ![a].value = Slice(Len(h) + 1, 0, e.len + 1, cap)],
                    Obj(BackingArray, backing))

RECURSIVE PushAll(_, _, _, _)
PushAll(h, a, args, i) ==
    IF i > Len(args) THEN h
    ELSE PushAll(AppendObject(h, a, args[i]), a, args, i + 1)

\* (*Array).CallMethod
ArrayCallMethod(h, a, method, args) ==
    CASE method = "push" ->
           LET pushed == PushAll(h, a, args, 1) IN
           New(pushed, IntegerObj, pushed[a].value.len)
      [] method = "pop" ->
           LET e == h[a].value IN
           IF e.len = 0 THEN newError(h, "array is empty")
           ELSE Old([h EXCEPT ![a].value.len = e.len - 1], ElementAt(h, e, e.len - 1))
      [] OTHER -> newError(h, "NOMETHODERROR")

\* obj.CallMethod(method, args...): only an Array has methods among the
\* kinds of value that the programs can make a receiver of.
CallMethod(h, obj, method, args) ==
    IF obj = NIL THEN Fault(h)
    ELSE IF Type(h, obj) = ArrayObj THEN ArrayCallMethod(h, obj, method, args)
    ELSE newError(h, "NOMETHODERROR")

\* An index computation that would not count a negative index from the end.
calcIndexNoWrap(h, max, idxExpr, end) ==
    IF idxExpr = NIL \/ Type(h, idxExpr) # IntegerObj
    THEN [idx |-> 0, err |-> "INDEXINT"]
    ELSE IF h[idxExpr].value >= (IF end THEN max + 1 ELSE max) \/ h[idxExpr].value < 0
         THEN [idx |-> h[idxExpr].value, err |-> "INDEXERROR"]
         ELSE [idx |-> h[idxExpr].value, err |-> ""]

\* calcIndex: the index into max elements (max + 1 positions for the end
\* of a slice) that idxExpr denotes, or the Error.
calcIndex(h, max, idxExpr, end) ==
    IF idxExpr = NIL \/ Type(h, idxExpr) # IntegerObj
    THEN [idx |-> 0, err |-> "INDEXINT"]
    ELSE LET m == IF end THEN max + 1 ELSE max
             originIdx == h[idxExpr].value
             idx == IF originIdx < 0 THEN originIdx + m ELSE originIdx
         IN  IF idx >= m THEN [idx |-> idx, err |-> "INDEXERROR"]
             ELSE IF idx < 0 THEN [idx |-> idx, err |-> "INDEXERROR"]
             ELSE [idx |-> idx, err |-> ""]

\* old.Value op= newValue.Value on two Integers.
CompoundValue(old, op, new) ==
    CASE op = "+=" -> old + new
      [] op = "-=" -> old - new
      [] op = "*=" -> old * new
      [] op = "/=" -> TruncDiv(old, new)

CompoundOperators == {"+=", "-=", "*=", "/="}

\* old op= new on two float64 values.
FloatCompoundValue(old, op, new) ==
    CASE op = "+=" -> FAdd(old, new)
      [] op = "-=" -> FSub(old, new)
      [] op = "*=" -> FMul(old, new)
      [] op = "/=" -> FDiv(old, new)

\* The divisor of `/=` is a zero.
ZeroDivisor(h, op, newValue) ==
    op = "/=" /\ float64(h, newValue).n = 0 /\ float64(h, newValue).d # 0

\* An Integer element and a Float operand: the element is not changed in
\* place, a new Float takes its position in the Array or the Hash.
Replaces(h, old, op, newValue) ==
    /\ old # NIL /\ newValue # NIL
    /\ Type(h, old) = IntegerObj /\ Type(h, newValue) = FloatObj
    /\ op \in CompoundOperators
    /\ ~ZeroDivisor(h, op, newValue)

\* The tail of updateArray and of updateHash once the element old is read:
\* a compound operator changes an Integer or a Float element in place, or
\* makes the Float that replaces an Integer element.
UpdateInPlace(h, old, op, newValue) ==
    IF old = NIL \/ newValue = NIL THEN Fault(h)
    ELSE IF Type(h, old) = IntegerObj /\ op \in CompoundOperators
    THEN IF ~isNumber(h, newValue) THEN newError(h, "INFIXOP")
         ELSE IF ZeroDivisor(h, op, newValue) THEN newError(h, "DIVIDEBYZERO")
         ELSE IF Type(h, newValue) = IntegerObj
         THEN Old([h EXCEPT ![old].value =
                      CompoundValue(@, op, h[newValue].value)], old)
         ELSE New(h, FloatObj,
                  FloatCompoundValue(float64(h, old), op, h[newValue].value))
    ELSE IF Type(h, old) = FloatObj /\ op \in CompoundOperators
    THEN IF ~isNumber(h, newValue) THEN Old(h, old)
         ELSE IF ZeroDivisor(h, op, newValue) THEN newError(h, "DIVIDEBYZERO")
         ELSE Old([h EXCEPT ![old].value =
                      FloatCompoundValue(@, op, float64(h, newValue))], old)
    ELSE newError(h, "INFIXOP")

\* updateArray: objects[idx] is a Go index expression, which faults outside
\* 0 .. len(objects)-1.
updateArray(h, objects, idx, op, newValue) ==
    IF idx < 0 \/ idx >= objects.len THEN Fault(h)
    ELSE IF op = "="
         THEN Old([h EXCEPT ![objects.array].value[objects.off + idx + 1] = newValue],
                  newValue)
    ELSE LET old == ElementAt(h, objects, idx)
             r == UpdateInPlace(h, old, op, newValue)
         IN  IF Replaces(h, old, op, newValue)
             THEN [r EXCEPT !.heap[objects.array].value[objects.off + idx + 1] = r.ref]
             ELSE r

----------------------------------------------------------------------------
(* Hashes.  Hash.Pairs is a Go map from HashKey to HashPair, held as the   *)
(* list of its entries, one per key.  A String hashes its text (FNV-1a);   *)
(* the text itself stands for the hash, so distinct texts never collide.   *)

Hashable(h, k) == Type(h, k) \in {IntegerObj, FloatObj, BooleanObj, StringObj}

HashKey(h, k) ==
    IF Type(h, k) = BooleanObj
    THEN [Type |-> BooleanObj, Value |-> IF h[k].value THEN 1 ELSE 0]
    ELSE [Type |-> Type(h, k), Value |-> h[k].value]

SameKey(a, b) == a.Type = b.Type /\ a.Value = b.Value

HashPair(hashkey, key, value) == [HashKey |-> hashkey, Key |-> key, Value |-> value]

\* The position of hashkey's entry in pairs, 0 when the map lacks it.
Entry(pairs, hashkey) ==
    LET found == {i \in 1 .. Len(pairs) : SameKey(pairs[i].HashKey, hashkey)} IN
    IF found = {} THEN 0 ELSE CHOOSE i \in found : TRUE

\* pairs[hashkey] = HashPair{Key: key, Value: value}
PutPair(pairs, hashkey, key, value) ==
    IF Entry(pairs, hashkey) = 0 THEN Append(pairs, HashPair(hashkey, key, value))
    ELSE [pairs EXCEPT ![Entry(pairs, hashkey)] = HashPair(hashkey, key, value)]

\* The read closure of evalIndexExpression for a Hash.
HashLookup(h, hash, key) ==
    IF key = NIL THEN Fault(h)
    ELSE IF ~Hashable(h, key) THEN newError(h, "NOTHASHABLE")
    ELSE LET pairs == h[hash].value.Pairs
             e == Entry(pairs, HashKey(h, key))
         IN  IF e = 0 THEN Old(h, NULL) ELSE Old(h, pairs[e].Value)

updateHash(h, hash, key, op, newValue) ==
    IF key = NIL THEN Fault(h)
    ELSE IF ~Hashable(h, key) THEN newError(h, "NOTHASHABLE")
    ELSE LET pairs == h[hash].value.Pairs
             hashkey == HashKey(h, key)
             e == Entry(pairs, hashkey)
         IN  IF op = "="
             THEN Old([h EXCEPT ![hash].value.Pairs = PutPair(pairs, hashkey, key, newValue)],
                      newValue)
             ELSE LET old == IF e = 0 THEN NIL ELSE pairs[e].Value
                      r == UpdateInPlace(h, old, op, newValue)
                  IN  IF Replaces(h, old, op, newValue)
                      THEN [r EXCEPT !.heap[hash].value.Pairs[e] =
                                        HashPair(hashkey, key, r.ref)]
                      ELSE r

----------------------------------------------------------------------------
(* The call stack.  An activation is one running Go function: fn is the    *)
(* function, node and s its arguments, pc its position, res the value      *)
(* returned by the call of Eval it made last, and i, x, y, args, sub, it   *)
(* its locals (loop index, objects, argument list, scopes); op and f are   *)
(* the operator and the closure an index function was handed, l and idx    *)
(* the length and index of a slice, todo and hashkey the entries that the  *)
(* range over a hash literal has yet to visit and the key of the current   *)
(* one.                                                                    *)

Act(fn, node, s) ==
    [fn |-> fn, node |-> node, s |-> s, pc |-> "start", res |-> NIL,
     i |-> 1, x |-> NIL, y |-> NIL, args |-> << >>, sub |-> 0, it |-> 0,
     op |-> "", f |-> "", l |-> 0, idx |-> 0, todo |-> {},
     hashkey |-> [Type |-> NullObj, Value |-> 0]]

top == stack[Len(stack)]

\* A run is followed for MaxSteps steps, and for MaxUnwind more once its
\* context is cancelled.
Running ==
    /\ status = "running"
    /\ stack # << >>
    /\ steps < (IF cancelled THEN MaxSteps + MaxUnwind ELSE MaxSteps)

Tick == steps' = steps + 1

\* return v: the activation ends and its caller receives v; the value
\* returned by the outermost Eval is the result of the run.
Return(v) ==
    /\ stack' = IF Len(stack) = 1 THEN << >>
                ELSE [SubSeq(stack, 1, Len(stack) - 1) EXCEPT ![Len(stack) - 1].res = v]
    /\ IF Len(stack) = 1
       THEN status' = "done" /\ result' = v
       ELSE UNCHANGED <<status, result>>

\* The activation goes on as a.
Goto(a) ==
    /\ stack' = [stack EXCEPT ![Len(stack)] = a]
    /\ UNCHANGED <<status, result>>

\* The activation goes on as a after the call Eval(ctx, node, s) returns.
CallEval(a, node, s) ==
    /\ stack' = Append([stack EXCEPT ![Len(stack)] = a], Act("Eval", node, s))
    /\ UNCHANGED <<status, result>>

\* A Go runtime panic; nothing recovers it, the process dies.
Panic ==
    /\ status' = "panic"
    /\ UNCHANGED <<stack, result>>

\* return o.ref where o is the outcome of an operator on objects.
ReturnOutcome(o) ==
    /\ heap' = o.heap
    /\ IF o.panic THEN Panic ELSE Return(o.ref)

----------------------------------------------------------------------------
(* Eval: the cancellation check, then the dispatch on the node's kind.     *)
(* `return evalX(ctx, node, s)` continues the activation as evalX.         *)

\* A context that is never done (context.Background()).
ctxNeverDone == FALSE

\* case <-ctx.Done(): the channel is closed once the context is cancelled.
ctxDone == cancelled

EvalStart ==
    LET node == top.node
        s == top.s
        k == node.kind
    IN
    IF ctxDone
    THEN ReturnOutcome(newError(heap, "TIMEOUT")) /\ UNCHANGED scopes
    ELSE
    CASE k = "Program" ->
           Goto(Act("evalProgram", node, s)) /\ UNCHANGED <<heap, scopes>>
      [] k = "ExpressionStatement" ->
           Goto(Act("Eval", node.Expression, s)) /\ UNCHANGED <<heap, scopes>>
      [] k = "BlockStatement" ->
           Goto(Act("evalBlockStatement", node, s)) /\ UNCHANGED <<heap, scopes>>
      [] k = "ReturnStatement" ->
           CallEval([top EXCEPT !.pc = "ReturnStatement"], node.ReturnValue, s)
           /\ UNCHANGED <<heap, scopes>>
      [] k = "LetStatement" ->
           Goto(Act("evalLetStatement", node, s)) /\ UNCHANGED <<heap, scopes>>
      [] k = "IntegerLiteral" ->
           ReturnOutcome(New(heap, IntegerObj, node.Value)) /\ UNCHANGED scopes
      [] k = "FloatLiteral" ->
           ReturnOutcome(New(heap, FloatObj, node.Value)) /\ UNCHANGED scopes
      [] k = "BooleanLiteral" ->
           Return(nativeBoolToBooleanObject(node.Value)) /\ UNCHANGED <<heap, scopes>>
      [] k = "NullExpression" ->
           Return(NULL) /\ UNCHANGED <<heap, scopes>>
      [] k = "FunctionLiteral" ->
           ReturnOutcome(New(heap, FunctionObj,
                             [Parameters |-> node.Parameters, Body |-> node.Body,
                              Scope |-> s]))
           /\ UNCHANGED scopes
      [] k = "PrefixExpression" ->
           CallEval([top EXCEPT !.pc = "PrefixExpression"], node.Right, s)
           /\ UNCHANGED <<heap, scopes>>
      [] k = "InfixExpression" ->
           CallEval([top EXCEPT !.pc = "InfixLeft"], node.Left, s)
           /\ UNCHANGED <<heap, scopes>>
      [] k = "PostfixExpression" ->
           CallEval([top EXCEPT !.pc = "PostfixExpression"], node.Left, s)
           /\ UNCHANGED <<heap, scopes>>
      [] k = "IfExpression" ->
           Goto(Act("evalIfExpression", node, s)) /\ UNCHANGED <<heap, scopes>>
      [] k = "WhileExpression" ->
           Goto(Act("evalWhileExpression", node, s)) /\ UNCHANGED <<heap, scopes>>
      [] k = "BreakExpression" ->
           Return(BREAK) /\ UNCHANGED <<heap, scopes>>
      [] k = "ContinueExpression" ->
           Return(CONTINUE) /\ UNCHANGED <<heap, scopes>>
      [] k = "ForExpression" ->
           Goto(Act("evalForExpression", node, s)) /\ UNCHANGED <<heap, scopes>>
      [] k = "Identifier" ->
           ReturnOutcome(evalIdentifier(heap, scopes, node, s)) /\ UNCHANGED scopes
      [] k = "AssignExpression" ->
           Goto(Act("evalAssignExpression", node, s)) /\ UNCHANGED <<heap, scopes>>
      [] k = "CallExpression" ->
           Goto(Act("evalCallExpression", node, s)) /\ UNCHANGED <<heap, scopes>>
      [] k = "ArrayLiteral" ->
           Goto(Act("evalArrayLiteral", node, s)) /\ UNCHANGED <<heap, scopes>>
      [] k = "HashLiteral" ->
           Goto(Act("evalHashLiteral", node, s)) /\ UNCHANGED <<heap, scopes>>
      [] k = "MethodCallExpression" ->
           Goto(Act("evalMethodCallExpression", node, s)) /\ UNCHANGED <<heap, scopes>>
      [] k = "IndexExpression" ->
           Goto(Act("evalIndexExpression", node, s)) /\ UNCHANGED <<heap, scopes>>
      [] k = "DeleteStatement" ->
           Goto(Act("evalDeleteStatement", node, s)) /\ UNCHANGED <<heap, scopes>>
      [] OTHER ->    \* a nil node matches no case: return nil
           Return(NIL) /\ UNCHANGED <<heap, scopes>>

Eval ==
    /\ Running
    /\ top.fn = "Eval"
    /\ Tick
    /\ UNCHANGED <<tokens, parser, program, cancelled>>
    /\ CASE top.pc = "start" -> EvalStart
         [] top.pc = "ReturnStatement" ->
              ReturnOutcome(New(heap, ReturnValueObj, top.res)) /\ UNCHANGED scopes
         [] top.pc = "PrefixExpression" ->
              ReturnOutcome(evalPrefixExpression(heap, top.node.Operator, top.res))
              /\ UNCHANGED scopes
         [] top.pc = "PostfixExpression" ->
              ReturnOutcome(evalPostfixExpression(heap, top.res, top.node.Operator))
              /\ UNCHANGED scopes
         [] top.pc = "InfixLeft" ->
              CallEval([top EXCEPT !.pc = "InfixRight", !.x = top.res],
                       top.node.Right, top.s)
              /\ UNCHANGED <<heap, scopes>>
         [] top.pc = "InfixRight" ->
              \E nan \in NaNToInt64 :
                 ReturnOutcome(evalInfixExpression(heap, top.x, top.node.Operator,
                                                   top.res, nan))
                 /\ UNCHANGED scopes

----------------------------------------------------------------------------
(* Statement sequences.                                                    *)

\* An ExpressionStatement whose Expression is nil is skipped.
EmptyExprStmt(stmt) ==
    stmt.kind = "ExpressionStatement" /\ stmt.Expression.kind = "nil"

\* The statement results at which the loop of evalProgram returns.
ProgramStops(h, r) == r # NIL /\ Type(h, r) \in {ReturnValueObj, ErrorObj}

\* A block that would run on past a ReturnValue.
BlockStopsNoReturn(h, r) ==
    r # NIL /\ Type(h, r) \in {ErrorObj, BreakObj, ContinueObj}

\* The statement results at which the loop of evalBlockStatement returns.
BlockStops(h, r) ==
    r # NIL /\ Type(h, r) \in {ReturnValueObj, ErrorObj, BreakObj, ContinueObj}

evalProgram ==
    /\ Running
    /\ top.fn = "evalProgram"
    /\ Tick
    /\ UNCHANGED <<tokens, parser, program, cancelled, heap, scopes>>
    /\ LET stmts == top.node.Statements IN
       CASE top.pc = "start" ->
              IF top.i > Len(stmts) THEN Return(top.x)
              ELSE IF EmptyExprStmt(stmts[top.i])
                   THEN Goto([top EXCEPT !.i = @ + 1])
                   ELSE CallEval([top EXCEPT !.pc = "stmt"], stmts[top.i], top.s)
         [] top.pc = "stmt" ->
              IF ProgramStops(heap, top.res)
              THEN (IF Type(heap, top.res) = ReturnValueObj
                    THEN Return(heap[top.res].value)
                    ELSE Return(top.res))
              ELSE Goto([top EXCEPT !.pc = "start", !.i = @ + 1, !.x = top.res])

evalBlockStatement ==
    /\ Running
    /\ top.fn = "evalBlockStatement"
    /\ Tick
    /\ UNCHANGED <<tokens, parser, program, cancelled, heap, scopes>>
    /\ LET stmts == top.node.Statements IN
       CASE top.pc = "start" ->
              IF top.i > Len(stmts) THEN Return(top.x)
              ELSE IF EmptyExprStmt(stmts[top.i])
                   THEN Goto([top EXCEPT !.i = @ + 1])
                   ELSE CallEval([top EXCEPT !.pc = "stmt"], stmts[top.i], top.s)
         [] top.pc = "stmt" ->
              IF BlockStops(heap, top.res)
              THEN Return(top.res)
              ELSE Goto([top EXCEPT !.pc = "start", !.i = @ + 1, !.x = top.res])

evalLetStatement ==
    /\ Running
    /\ top.fn = "evalLetStatement"
    /\ Tick
    /\ UNCHANGED <<tokens, parser, program, cancelled>>
    /\ LET name == top.node.Name.Value IN
       CASE top.pc = "start" ->
              IF GetCurrent(scopes, top.s, name).ok
              THEN ReturnOutcome(newError(heap, "REDEFINE")) /\ UNCHANGED scopes
              ELSE CallEval([top EXCEPT !.pc = "value"], top.node.Value, top.s)
                   /\ UNCHANGED <<heap, scopes>>
         [] top.pc = "value" ->
              IF top.res = NIL
              THEN Panic /\ UNCHANGED <<heap, scopes>>
              ELSE IF Type(heap, top.res) # ErrorObj
                   THEN /\ scopes' = Set(scopes, top.s, name, top.res)
                        /\ Return(top.res)
                        /\ UNCHANGED heap
                   ELSE Return(top.res) /\ UNCHANGED <<heap, scopes>>

\* delete(l.Pairs, hashable.HashKey())
RemovePair(pairs, e) == SubSeq(pairs, 1, e - 1) \o SubSeq(pairs, e + 1, Len(pairs))

\* The IndexExpression case of evalDeleteStatement once left and index are
\* evaluated: the element of an Array is overwritten with NULL, the entry of
\* a Hash is removed; the old value is returned.
DeleteIndexed(h, left, index) ==
    IF left # NIL /\ Type(h, left) = ArrayObj
    THEN LET objects == h[left].value
             c == calcIndex(h, objects.len, index, FALSE)
         IN  IF c.err # "" THEN newError(h, c.err)
             ELSE Old([h EXCEPT ![objects.array].value[objects.off + c.idx + 1] = NULL],
                      ElementAt(h, objects, c.idx))
    ELSE IF left # NIL /\ Type(h, left) = HashObj
    THEN IF index # NIL /\ Hashable(h, index)
         THEN LET pairs == h[left].value.Pairs
                  e == Entry(pairs, HashKey(h, index))
              IN  IF e = 0 THEN Old(h, NULL)
                  ELSE Old([h EXCEPT ![left].value.Pairs = RemovePair(pairs, e)],
                           pairs[e].Value)
         ELSE Old(h, NULL)
    ELSE Old(h, NULL)

evalDeleteStatement ==
    /\ Running
    /\ top.fn = "evalDeleteStatement"
    /\ Tick
    /\ UNCHANGED <<tokens, parser, program, cancelled>>
    /\ LET value == top.node.Value IN
       CASE top.pc = "start" ->
              /\ UNCHANGED scopes
              /\ IF value.kind = "Identifier"
                 THEN CallEval([top EXCEPT !.pc = "old"], value, top.s)
                      /\ UNCHANGED heap
                 ELSE IF value.kind = "IndexExpression"
                 THEN CallEval([top EXCEPT !.pc = "left"], value.Left, top.s)
                      /\ UNCHANGED heap
                 ELSE IF value.kind = "nil"
                 THEN Panic /\ UNCHANGED heap       \* value.String() on nil
                 ELSE ReturnOutcome(newError(heap, "NOTLVALUE"))
         [] top.pc = "old" ->
              /\ scopes' = Delete(scopes, top.s, value.Value).scopes
              /\ Return(top.res)
              /\ UNCHANGED heap
         [] top.pc = "left" ->
              /\ CallEval([top EXCEPT !.pc = "index", !.x = top.res],
                          value.Index, top.s)
              /\ UNCHANGED <<heap, scopes>>
         [] top.pc = "index" ->
              /\ ReturnOutcome(DeleteIndexed(heap, top.x, top.res))
              /\ UNCHANGED scopes

----------------------------------------------------------------------------
(* if, while, for.                                                         *)

evalIfExpression ==
    /\ Running
    /\ top.fn = "evalIfExpression"
    /\ Tick
    /\ UNCHANGED <<tokens, parser, program, cancelled, heap, scopes>>
    /\ CASE top.pc = "start" ->
              CallEval([top EXCEPT !.pc = "cond"], top.node.Condition, top.s)
         [] top.pc = "cond" ->
              IF isTruthy(heap, top.res)
              THEN Goto(Act("Eval", top.node.Consequence, top.s))
              ELSE IF top.node.Alternative.kind # "nil"
                   THEN Goto(Act("Eval", top.node.Alternative, top.s))
                   ELSE Return(NULL)

\* Iterations that would all run in the loop's own scope.
newSubScopeShared(sc, innerScope) == [scopes |-> sc, ref |-> innerScope]

\* newSubScope := NewScope(innerScope): the scope of one iteration.
newSubScope(sc, innerScope) == NewScope(sc, innerScope)

\* A loop that would go on after an Error from its body.
LoopKeepsRunning(h, r) == FALSE

\* A body result at which a loop returns that result: an Error.
LoopAborts(h, r) == r # NIL /\ Type(h, r) = ErrorObj

\* The value of a loop once it is left: a.y is the local `result`.
LoopResult(h, a) ==
    IF a.y = NIL \/ Type(h, a.y) = BreakObj \/ Type(h, a.y) = ContinueObj
    THEN NULL ELSE a.y

\* `for isTruthy(condition)` of evalWhileExpression; a.x is `condition`.
WhileHead(a) ==
    IF isTruthy(heap, a.x)
    THEN CallEval([a EXCEPT !.pc = "body"], a.node.Body, a.sub)
    ELSE Return(LoopResult(heap, a))

evalWhileExpression ==
    /\ Running
    /\ top.fn = "evalWhileExpression"
    /\ Tick
    /\ UNCHANGED <<tokens, parser, program, cancelled, heap>>
    /\ CASE top.pc = "start" ->
              LET n == NewScope(scopes, top.s) IN
              /\ scopes' = n.scopes
              /\ CallEval([top EXCEPT !.pc = "cond", !.sub = n.ref],
                          top.node.Condition, n.ref)
         [] top.pc = "cond" ->
              /\ UNCHANGED scopes
              /\ IF top.res = NIL THEN Panic
                 ELSE IF Type(heap, top.res) = ErrorObj THEN Return(top.res)
                 ELSE WhileHead([top EXCEPT !.x = top.res])
         [] top.pc = "body" ->
              /\ UNCHANGED scopes
              /\ LET a == [top EXCEPT !.y = top.res] IN
                 IF top.res = NIL THEN Panic
                 ELSE IF LoopAborts(heap, top.res) THEN Return(top.res)
                 ELSE IF Type(heap, top.res) = BreakObj THEN Return(LoopResult(heap, a))
                 ELSE IF Type(heap, top.res) = ContinueObj THEN WhileHead(a)
                 ELSE IF Type(heap, top.res) = ReturnValueObj
                      THEN (IF heap[top.res].value # NIL THEN Return(top.res)
                            ELSE Return(LoopResult(heap, a)))
                 ELSE CallEval([a EXCEPT !.pc = "cond"], a.node.Condition, a.sub)

\* `for isTruthy(condition)` of evalForExpression: every iteration gets a
\* new scope under the loop's scope a.sub.
ForHead(a) ==
    IF isTruthy(heap, a.x)
    THEN LET n == newSubScope(scopes, a.sub) IN
         /\ scopes' = n.scopes
         /\ CallEval([a EXCEPT !.pc = "body", !.it = n.ref], a.node.Body, n.ref)
    ELSE Return(LoopResult(heap, a)) /\ UNCHANGED scopes

\* The first evaluation of the condition, in the loop's scope.
ForFirstCondition(a) ==
    IF a.node.Condition.kind # "nil"
    THEN CallEval([a EXCEPT !.pc = "cond0"], a.node.Condition, a.sub)
         /\ UNCHANGED scopes
    ELSE ForHead(a)

\* The evaluation of the condition after an iteration, in its scope.
ForNextCondition(a) ==
    IF a.node.Condition.kind # "nil"
    THEN CallEval([a EXCEPT !.pc = "cond"], a.node.Condition, a.it)
         /\ UNCHANGED scopes
    ELSE ForHead(a)

evalForExpression ==
    /\ Running
    /\ top.fn = "evalForExpression"
    /\ Tick
    /\ UNCHANGED <<tokens, parser, program, cancelled, heap>>
    /\ CASE top.pc = "start" ->
              LET n == NewScope(scopes, top.s)
                  a == [top EXCEPT !.sub = n.ref]
              IN  IF top.node.Init.kind # "nil"
                  THEN /\ scopes' = n.scopes
                       /\ CallEval([a EXCEPT !.pc = "init"], top.node.Init, n.ref)
                  ELSE IF top.node.Condition.kind # "nil"
                       THEN /\ scopes' = n.scopes
                            /\ CallEval([a EXCEPT !.pc = "cond0"],
                                        top.node.Condition, n.ref)
                       ELSE \* the first iteration starts at once
                            LET m == newSubScope(n.scopes, n.ref) IN
                            /\ scopes' = m.scopes
                            /\ CallEval([a EXCEPT !.pc = "body", !.it = m.ref],
                                        top.node.Body, m.ref)
         [] top.pc = "init" ->
              IF top.res = NIL THEN Panic /\ UNCHANGED scopes
              ELSE IF Type(heap, top.res) = ErrorObj
                   THEN Return(top.res) /\ UNCHANGED scopes
                   ELSE ForFirstCondition(top)
         [] top.pc \in {"cond0", "cond", "ccond"} ->
              IF top.res = NIL THEN Panic /\ UNCHANGED scopes
              ELSE IF Type(heap, top.res) = ErrorObj
                   THEN Return(top.res) /\ UNCHANGED scopes
                   ELSE ForHead([top EXCEPT !.x = top.res])
         [] top.pc = "body" ->
              LET a == [top EXCEPT !.y = top.res] IN
              IF LoopAborts(heap, top.res)
              THEN Return(top.res) /\ UNCHANGED scopes
              ELSE IF top.res # NIL /\ Type(heap, top.res) = BreakObj
                   THEN Return(LoopResult(heap, a)) /\ UNCHANGED scopes
              ELSE IF top.res # NIL /\ Type(heap, top.res) = ContinueObj
                   THEN CallEval([a EXCEPT !.pc = "cupdate"], a.node.Update, a.it)
                        /\ UNCHANGED scopes
              ELSE IF top.res # NIL /\ Type(heap, top.res) = ReturnValueObj
                   THEN (IF heap[top.res].value # NIL THEN Return(top.res)
                         ELSE Return(LoopResult(heap, a))) /\ UNCHANGED scopes
              ELSE IF a.node.Update.kind # "nil"
                   THEN CallEval([a EXCEPT !.pc = "update"], a.node.Update, a.it)
                        /\ UNCHANGED scopes
                   ELSE ForNextCondition(a)
         [] top.pc = "cupdate" ->
              \* after Continue, Update and Condition are evaluated unguarded
              /\ UNCHANGED scopes
              /\ IF top.res = NIL THEN Panic
                 ELSE IF Type(heap, top.res) = ErrorObj THEN Return(top.res)
                 ELSE CallEval([top EXCEPT !.pc = "ccond"], top.node.Condition, top.it)
         [] top.pc = "update" ->
              IF top.res = NIL THEN Panic /\ UNCHANGED scopes
              ELSE IF Type(heap, top.res) = ErrorObj
                   THEN Return(top.res) /\ UNCHANGED scopes
                   ELSE ForNextCondition(top)

----------------------------------------------------------------------------
(* Assignment to an Identifier.                                            *)

\* The outcome of an assignment: the heap and scopes after it and the
\* object it returns.
Assigned(h, sc, v) == [heap |-> h, scopes |-> sc, ref |-> v]

\* s.Reset(name, &Integer{Value: n}); the value is returned whether or not
\* a binding was found.
ResetInteger(h, sc, s, name, n) ==
    LET o == New(h, IntegerObj, n) IN
    Assigned(o.heap, Reset(sc, s, name, o.ref).scopes, o.ref)

\* s.Reset(name, &Float{Value: v})
ResetFloat(h, sc, s, name, v) ==
    LET o == New(h, FloatObj, v) IN
    Assigned(o.heap, Reset(sc, s, name, o.ref).scopes, o.ref)

evalNumberAssignExpression(h, sc, name, oldValue, newValue, op, s) ==
    LET fail(t) == LET e == newError(h, t) IN Assigned(e.heap, sc, e.ref)
        needInt == Type(h, oldValue) = IntegerObj /\ Type(h, newValue) = IntegerObj
        oldV == float64(h, oldValue)
        newV == float64(h, newValue)
        \* int64(oldV) and int64(newV) of two Integers are their values
        oldI == h[oldValue].value
        newI == h[newValue].value
    IN  IF ~isNumber(h, newValue) THEN fail("INFIXOP")
        ELSE CASE op = "+=" -> IF needInt THEN ResetInteger(h, sc, s, name, oldI + newI)
                               ELSE ResetFloat(h, sc, s, name, FAdd(oldV, newV))
               [] op = "-=" -> IF needInt THEN ResetInteger(h, sc, s, name, oldI - newI)
                               ELSE ResetFloat(h, sc, s, name, FSub(oldV, newV))
               [] op = "*=" -> IF needInt THEN ResetInteger(h, sc, s, name, oldI * newI)
                               ELSE ResetFloat(h, sc, s, name, FMul(oldV, newV))
               [] op = "/=" -> IF needInt
                               THEN IF newI = 0 THEN fail("DIVIDEBYZERO")
                                    ELSE ResetInteger(h, sc, s, name, TruncDiv(oldI, newI))
                               ELSE ResetFloat(h, sc, s, name, FDiv(oldV, newV))
               [] OTHER -> fail("INFIXOP")

\* evalAssignExpression once node.Value has been evaluated to newValue.
AssignIdentifier(h, sc, node, s, newValue) ==
    LET name == node.Name.Value
        op == node.Operator
        g == Get(sc, s, name)
        fail(t) == LET e == newError(h, t) IN Assigned(e.heap, sc, e.ref)
    IN  IF ~g.ok THEN fail("UNKNOWNIDENT")
        ELSE IF op = "=" THEN Assigned(h, Reset(sc, s, name, newValue).scopes, newValue)
        ELSE IF Type(h, g.v) \in {IntegerObj, FloatObj}
             THEN evalNumberAssignExpression(h, sc, name, g.v, newValue, op, s)
        ELSE fail("INFIXOP")

\* The expression at the bottom of a chain of index expressions.
RECURSIVE Base(_)
Base(node) == IF node.kind = "IndexExpression" THEN Base(node.Left) ELSE node

\* The name evalAssignExpression looks up: the target, or the identifier at
\* the bottom of an index chain, or "" when there is none.
AssignName(node) ==
    IF Base(node.Name).kind = "Identifier" THEN Base(node.Name).Value ELSE ""

\* evalAssignExpression from `if oldValue == nil` on, with newValue in y.
AssignOld(a, oldValue0) ==
    LET node == a.node
        name == AssignName(node)
        op == node.Operator
        newValue == a.y
        g == Get(scopes, a.s, name)
        oldValue == IF oldValue0 = NIL THEN g.v ELSE oldValue0
    IN  IF oldValue0 = NIL /\ ~g.ok
        THEN ReturnOutcome(newError(heap, "UNKNOWNIDENT")) /\ UNCHANGED scopes
        ELSE IF node.Name.kind = "Identifier" /\ Type(heap, oldValue) \notin {ArrayObj, HashObj}
             THEN LET r == AssignIdentifier(heap, scopes, node, a.s, newValue) IN
                  /\ heap' = r.heap
                  /\ scopes' = r.scopes
                  /\ Return(r.ref)
        ELSE IF node.Name.kind = "Identifier" /\ op = "="
             THEN /\ scopes' = Reset(scopes, a.s, name, newValue).scopes
                  /\ Return(newValue)
                  /\ UNCHANGED heap
        ELSE IF Type(heap, oldValue) \in {IntegerObj, FloatObj}
             THEN LET r == evalNumberAssignExpression(heap, scopes, name, oldValue,
                                                      newValue, op, a.s) IN
                  /\ heap' = r.heap
                  /\ scopes' = r.scopes
                  /\ Return(r.ref)
        ELSE IF Type(heap, oldValue) \in {ArrayObj, HashObj}
             THEN IF node.Name.kind # "IndexExpression"
                  THEN \* node.Name.(*ast.IndexExpression) fails
                       Panic /\ UNCHANGED <<heap, scopes>>
                  ELSE Goto([Act(IF Type(heap, oldValue) = ArrayObj
                                 THEN "evalArrayIndexExpressionFunc"
                                 ELSE "evalHashIndexExpressionFunc", node.Name, a.s)
                               EXCEPT !.op = op, !.y = newValue, !.f = "update"])
                       /\ UNCHANGED <<heap, scopes>>
        ELSE ReturnOutcome(newError(heap, "INFIXOP")) /\ UNCHANGED scopes

evalAssignExpression ==
    /\ Running
    /\ top.fn = "evalAssignExpression"
    /\ Tick
    /\ UNCHANGED <<tokens, parser, program, cancelled>>
    /\ CASE top.pc = "start" ->
              CallEval([top EXCEPT !.pc = "value"], top.node.Value, top.s)
              /\ UNCHANGED <<heap, scopes>>
         [] top.pc = "value" ->
              IF top.res = NIL THEN Panic /\ UNCHANGED <<heap, scopes>>
              ELSE IF Type(heap, top.res) = ErrorObj
                   THEN Return(top.res) /\ UNCHANGED <<heap, scopes>>
              ELSE IF top.node.Name.kind = "IndexExpression"
                      /\ Base(top.node.Name).kind # "Identifier"
                   THEN CallEval([top EXCEPT !.pc = "oldValue", !.y = top.res],
                                 Base(top.node.Name), top.s)
                        /\ UNCHANGED <<heap, scopes>>
                   ELSE AssignOld([top EXCEPT !.y = top.res], NIL)
         [] top.pc = "oldValue" -> AssignOld(top, top.res)

----------------------------------------------------------------------------
(* Calls.                                                                  *)

\* evalExpressions returns a list: its caller receives it in args.
ReturnList(l) ==
    /\ stack' = [SubSeq(stack, 1, Len(stack) - 1) EXCEPT ![Len(stack) - 1].args = l]
    /\ UNCHANGED <<status, result>>

\* The loop over the expressions, from index a.i on.
ExpressionsLoop(a) ==
    IF a.i > Len(a.node.Arguments) THEN ReturnList(a.args)
    ELSE CallEval([a EXCEPT !.pc = "arg"], a.node.Arguments[a.i], a.s)

evalExpressions ==
    /\ Running
    /\ top.fn = "evalExpressions"
    /\ Tick
    /\ UNCHANGED <<tokens, parser, program, cancelled, heap, scopes>>
    /\ CASE top.pc = "start" -> ExpressionsLoop(top)
         [] top.pc = "arg" ->
              IF top.res = NIL THEN Panic
              ELSE IF Type(heap, top.res) = ErrorObj THEN ReturnList(<<top.res>>)
              ELSE ExpressionsLoop([top EXCEPT !.args = Append(@, top.res), !.i = @ + 1])

evalCallExpression ==
    /\ Running
    /\ top.fn = "evalCallExpression"
    /\ Tick
    /\ UNCHANGED <<tokens, parser, program, cancelled, heap, scopes>>
    /\ CASE top.pc = "start" ->
              CallEval([top EXCEPT !.pc = "function"], top.node.Function, top.s)
         [] top.pc = "function" ->
              IF top.res = NIL THEN Panic
              ELSE IF Type(heap, top.res) = ErrorObj THEN Return(top.res)
              ELSE /\ stack' = Append([stack EXCEPT ![Len(stack)] =
                                          [top EXCEPT !.pc = "args", !.x = top.res]],
                                      Act("evalExpressions", top.node, top.s))
                   /\ UNCHANGED <<status, result>>
         [] top.pc = "args" ->
              IF Len(top.args) = 1 /\ Type(heap, top.args[1]) = ErrorObj
              THEN Return(top.args[1])
              ELSE Goto([Act("applyFunction", top.node, top.s) EXCEPT
                            !.x = top.x, !.args = top.args])

\* sub.Set(param.Value, args[i]) for every parameter, in order.
RECURSIVE BindParameters(_, _, _, _, _)
BindParameters(sc, sub, params, args, i) ==
    IF i > Len(params) THEN sc
    ELSE BindParameters(Set(sc, sub, params[i], args[i]), sub, params, args, i + 1)

\* A call frame placed under the global frame whatever was captured.
CalleeParentGlobal(function) == 1

\* The parent of the frame of a call: the scope the Function captured.
CalleeParent(function) == function.Scope

\* function.Fn(args...) for the builtins of the registry.
CallBuiltin(h, name, args) ==
    IF name = "len"
    THEN (IF Len(args) # 1 THEN newError(h, "ARGUMENTNUMERROR")
          ELSE IF Type(h, args[1]) = ArrayObj
               THEN New(h, IntegerObj, h[args[1]].value.len)
          ELSE IF Type(h, args[1]) = HashObj
               THEN New(h, IntegerObj, Len(h[args[1]].value.Pairs))
          ELSE newError(h, "ARGUMENTTYPEERROR"))
    ELSE Old(h, NULL)

applyFunction ==
    /\ Running
    /\ top.fn = "applyFunction"
    /\ Tick
    /\ UNCHANGED <<tokens, parser, program, cancelled>>
    /\ CASE top.pc = "start" ->
              IF Type(heap, top.x) = FunctionObj
              THEN LET function == heap[top.x].value
                       n == NewScope(scopes, CalleeParent(function))
                   IN  IF Len(function.Parameters) > Len(top.args)
                       THEN \* args[i]: index out of range
                            Panic /\ UNCHANGED <<heap, scopes>>
                       ELSE /\ scopes' = BindParameters(n.scopes, n.ref,
                                             function.Parameters, top.args, 1)
                            /\ CallEval([top EXCEPT !.pc = "body", !.sub = n.ref],
                                        function.Body, n.ref)
                            /\ UNCHANGED heap
              ELSE IF Type(heap, top.x) = BuiltinObj
                   THEN ReturnOutcome(CallBuiltin(heap, heap[top.x].value, top.args))
                        /\ UNCHANGED scopes
                   ELSE ReturnOutcome(newError(heap, "NOTFUNC")) /\ UNCHANGED scopes
         [] top.pc = "body" ->
              /\ UNCHANGED <<heap, scopes>>
              /\ IF top.res # NIL /\ Type(heap, top.res) = ReturnValueObj
                 THEN Return(heap[top.res].value)
                 ELSE Return(top.res)

----------------------------------------------------------------------------
(* Arrays, hashes and method calls.  No node kind of the model evaluates   *)
(* to a String (a String is only made as the key of a hash literal), so    *)
(* the String cases of the switches below never apply and are left out.    *)

evalArrayLiteral ==
    /\ Running
    /\ top.fn = "evalArrayLiteral"
    /\ Tick
    /\ UNCHANGED <<tokens, parser, program, cancelled, scopes>>
    /\ CASE top.pc = "start" ->
              IF top.i > Len(top.node.Elements)
              THEN ReturnOutcome(NewArray(heap, top.args))
              ELSE CallEval([top EXCEPT !.pc = "element"], top.node.Elements[top.i], top.s)
                   /\ UNCHANGED heap
         [] top.pc = "element" ->
              Goto([top EXCEPT !.pc = "start", !.args = Append(@, top.res), !.i = @ + 1])
              /\ UNCHANGED heap

evalIndexExpression ==
    /\ Running
    /\ top.fn = "evalIndexExpression"
    /\ Tick
    /\ UNCHANGED <<tokens, parser, program, cancelled, scopes>>
    /\ CASE top.pc = "start" ->
              CallEval([top EXCEPT !.pc = "left"], top.node.Left, top.s)
              /\ UNCHANGED heap
         [] top.pc = "left" ->
              LET e == top.res IN
              IF top.node.Index.kind = "SliceExpression"
              THEN Goto([Act("evalSliceExpression", top.node.Index, top.s) EXCEPT !.x = e])
                   /\ UNCHANGED heap
              ELSE IF e = NIL THEN Panic /\ UNCHANGED heap
              ELSE IF Type(heap, e) = ArrayObj
                   THEN Goto([Act("evalArrayIndexExpressionFunc", top.node, top.s)
                                EXCEPT !.f = "index"])
                        /\ UNCHANGED heap
              ELSE IF Type(heap, e) = HashObj
                   THEN Goto([Act("evalHashIndexExpressionFunc", top.node, top.s)
                                EXCEPT !.f = "lookup"])
                        /\ UNCHANGED heap
              ELSE ReturnOutcome(newError(heap, "NOINDEXERROR"))

\* The head of both index functions: left and index are evaluated, and an
\* Error of either is returned.
IndexOperands ==
    CASE top.pc = "start" ->
           CallEval([top EXCEPT !.pc = "left"], top.node.Left, top.s)
      [] top.pc = "left" ->
           IF top.res = NIL THEN Panic
           ELSE IF Type(heap, top.res) = ErrorObj THEN Return(top.res)
           ELSE CallEval([top EXCEPT !.pc = "index", !.x = top.res],
                         top.node.Index, top.s)

evalArrayIndexExpressionFunc ==
    /\ Running
    /\ top.fn = "evalArrayIndexExpressionFunc"
    /\ Tick
    /\ UNCHANGED <<tokens, parser, program, cancelled, scopes>>
    /\ IF top.pc # "index" THEN IndexOperands /\ UNCHANGED heap
       ELSE LET left == top.x
                index == top.res
            IN  IF index = NIL THEN Panic /\ UNCHANGED heap
                ELSE IF Type(heap, index) = ErrorObj THEN Return(index) /\ UNCHANGED heap
                ELSE IF Type(heap, left) = ArrayObj
                     THEN LET objects == heap[left].value
                              c == calcIndex(heap, objects.len, index, FALSE)
                          IN  IF c.err # "" THEN ReturnOutcome(newError(heap, c.err))
                              ELSE IF top.f = "index"
                                   THEN Return(ElementAt(heap, objects, c.idx))
                                        /\ UNCHANGED heap
                              ELSE ReturnOutcome(updateArray(heap, objects, c.idx,
                                                             top.op, top.y))
                ELSE IF Type(heap, left) = HashObj
                     THEN ReturnOutcome(updateHash(heap, left, index, top.op, top.y))
                ELSE ReturnOutcome(newError(heap, "is not a hash"))

evalHashIndexExpressionFunc ==
    /\ Running
    /\ top.fn = "evalHashIndexExpressionFunc"
    /\ Tick
    /\ UNCHANGED <<tokens, parser, program, cancelled, scopes>>
    /\ IF top.pc # "index" THEN IndexOperands /\ UNCHANGED heap
       ELSE LET left == top.x
                index == top.res
            IN  IF index = NIL THEN Panic /\ UNCHANGED heap
                ELSE IF Type(heap, index) = ErrorObj THEN Return(index) /\ UNCHANGED heap
                ELSE IF Type(heap, left) = HashObj
                     THEN IF top.f = "lookup"
                          THEN ReturnOutcome(HashLookup(heap, left, index))
                          ELSE ReturnOutcome(updateHash(heap, left, index, top.op, top.y))
                ELSE IF Type(heap, left) = StringObj
                     THEN ReturnOutcome(newError(heap, "string is immutable"))
                ELSE IF Type(heap, left) = ArrayObj
                     THEN IF Type(heap, index) = IntegerObj
                          THEN ReturnOutcome(updateArray(heap, heap[left].value,
                                                 heap[index].value, top.op, top.y))
                          ELSE ReturnOutcome(newError(heap, "INDEXINT"))
                ELSE ReturnOutcome(newError(heap, "is not a hash"))

\* A slice expression that would copy the elements into storage of its own.
SliceOfCopy(h, obj, startIdx, endIdx) ==
    IF startIdx > endIdx THEN newError(h, "SLICEERROR")
    ELSE NewArray(h, SubSeq(Elements(h, obj), startIdx + 1, endIdx))

\* The tail of evalSliceExpression: obj.Elements[startIdx:endIdx].
SliceOf(h, obj, startIdx, endIdx) ==
    LET e == h[obj].value IN
    IF startIdx > endIdx THEN newError(h, "SLICEERROR")
    ELSE New(h, ArrayObj,
             Slice(e.array, e.off + startIdx, endIdx - startIdx, e.cap - startIdx))

evalSliceExpression ==
    /\ Running
    /\ top.fn = "evalSliceExpression"
    /\ Tick
    /\ UNCHANGED <<tokens, parser, program, cancelled, scopes>>
    /\ CASE top.pc = "start" ->
              IF top.x = NIL THEN Panic /\ UNCHANGED heap
              ELSE IF Type(heap, top.x) # ArrayObj
                   THEN ReturnOutcome(newError(heap, "NOINDEXERROR"))
              ELSE CallEval([top EXCEPT !.pc = "Start", !.l = heap[top.x].value.len],
                            top.node.Start, top.s)
                   /\ UNCHANGED heap
         [] top.pc = "Start" ->
              LET c == calcIndex(heap, top.l, top.res, FALSE) IN
              IF top.res = NIL THEN Panic /\ UNCHANGED heap
              ELSE IF Type(heap, top.res) = ErrorObj THEN Return(top.res) /\ UNCHANGED heap
              ELSE IF c.err # "" THEN ReturnOutcome(newError(heap, c.err))
              ELSE IF top.node.End.kind # "nil"
                   THEN CallEval([top EXCEPT !.pc = "End", !.idx = c.idx],
                                 top.node.End, top.s)
                        /\ UNCHANGED heap
              ELSE ReturnOutcome(SliceOf(heap, top.x, c.idx, top.l))
         [] top.pc = "End" ->
              LET c == calcIndex(heap, top.l, top.res, TRUE) IN
              IF top.res = NIL THEN Panic /\ UNCHANGED heap
              ELSE IF Type(heap, top.res) = ErrorObj THEN Return(top.res) /\ UNCHANGED heap
              ELSE IF c.err # "" THEN ReturnOutcome(newError(heap, c.err))
              ELSE ReturnOutcome(SliceOf(heap, top.x, top.idx, c.idx))

evalMethodCallExpression ==
    /\ Running
    /\ top.fn = "evalMethodCallExpression"
    /\ Tick
    /\ UNCHANGED <<tokens, parser, program, cancelled, scopes>>
    /\ CASE top.pc = "start" ->
              CallEval([top EXCEPT !.pc = "object"], top.node.Object, top.s)
              /\ UNCHANGED heap
         [] top.pc = "object" ->
              IF top.node.Call.kind = "CallExpression"
              THEN /\ stack' = Append([stack EXCEPT ![Len(stack)] =
                                          [top EXCEPT !.pc = "args", !.x = top.res]],
                                      Act("evalExpressions", top.node.Call, top.s))
                   /\ UNCHANGED <<status, result, heap>>
              ELSE IF top.res = NIL THEN Panic /\ UNCHANGED heap
              ELSE ReturnOutcome(newError(heap, "NOMETHODERROR"))
         [] top.pc = "args" ->
              ReturnOutcome(CallMethod(heap, top.x, top.node.Call.Function.Value, top.args))

\* The key of a pair: an Identifier key is not evaluated, it names a String.
evalHashLiteral ==
    /\ Running
    /\ top.fn = "evalHashLiteral"
    /\ Tick
    /\ UNCHANGED <<tokens, parser, program, cancelled, scopes>>
    /\ CASE top.pc = "start" ->
              Goto([top EXCEPT !.pc = "range", !.todo = 1 .. Len(top.node.Pairs)])
              /\ UNCHANGED heap
         [] top.pc = "range" ->
              IF top.todo = {}
              THEN ReturnOutcome(New(heap, HashObj, [Pairs |-> top.args]))
              ELSE \* range over a map: the next entry is any one not yet visited
                   \E p \in top.todo :
                      LET key == top.node.Pairs[p].Key
                          k == New(heap, StringObj, key.Value)
                      IN  IF key.kind = "Identifier"
                          THEN /\ heap' = k.heap
                               /\ CallEval([top EXCEPT !.pc = "value", !.i = p,
                                               !.todo = @ \ {p}, !.y = k.ref,
                                               !.hashkey = HashKey(k.heap, k.ref)],
                                           top.node.Pairs[p].Value, top.s)
                          ELSE /\ CallEval([top EXCEPT !.pc = "key", !.i = p,
                                               !.todo = @ \ {p}],
                                           key, top.s)
                               /\ UNCHANGED heap
         [] top.pc = "key" ->
              LET k == top.res IN
              IF k = NIL THEN Panic /\ UNCHANGED heap
              ELSE IF Hashable(heap, k)
                   THEN CallEval([top EXCEPT !.pc = "value", !.y = k,
                                     !.hashkey = HashKey(heap, k)],
                                 top.node.Pairs[top.i].Value, top.s)
                        /\ UNCHANGED heap
              ELSE ReturnOutcome(newError(heap, "NOTHASHABLE"))
         [] top.pc = "value" ->
              Goto([top EXCEPT !.pc = "range",
                               !.args = PutPair(@, top.hashkey, top.y, top.res)])
              /\ UNCHANGED heap

----------------------------------------------------------------------------
(* token: a Token is its Type and its Literal (token.go); the types are   *)
(* the strings of the token package.                                       *)

Token(typ, literal) == [Type |-> typ, Literal |-> literal]

EOF == Token("EOF", "")
IDENT(name) == Token("IDENT", name)
INT(literal) == Token("INT", literal)
Op(literal) == Token(literal, literal)

----------------------------------------------------------------------------
(* parser: the precedence levels and the table of the operator tokens.     *)

LOWEST == 1
ASSIGN == 2
OR == 3
AND == 4
EQUALS == 5
LESSGREATER == 6
SLICE == 7
SUM == 8
PRODUCT == 9
PREFIX == 10
CALL == 11
INDEX == 12
INCRDECR == 13

precedences ==
    [t \in {"=", "&&", "||", "==", "!=", "<", "<=", ">", ">=", ":", "+", "-",
            "+=", "-=", "%", "*", "/", "*=", "/=", "(", ".", "[", "++", "--"} |->
        CASE t = "=" -> ASSIGN
          [] t = "&&" -> AND
          [] t = "||" -> OR
          [] t \in {"==", "!="} -> EQUALS
          [] t \in {"<", "<=", ">", ">="} -> LESSGREATER
          [] t = ":" -> SLICE
          [] t \in {"+", "-", "+=", "-="} -> SUM
          [] t \in {"%", "*", "/", "*=", "/="} -> PRODUCT
          [] t \in {"(", "."} -> CALL
          [] t = "[" -> INDEX
          [] t \in {"++", "--"} -> INCRDECR]

\* The prefix and infix parsing functions New registers, by token type.
\* The literals, keywords and statements whose tokens no input below
\* contains (FLOAT, STRING, TRUE, FALSE, NULL, IF, WHILE, FOR, BREAK,
\* CONTINUE, TYPEOF, DELETE) are left out.
prefixParseFns ==
    [t \in {"IDENT", "INT", "[", "-", "!", "++", "--", "(", "FUNCTION", "{"} |->
        CASE t = "IDENT" -> "parseIdentifier"
          [] t = "INT" -> "parseIntegerLiteral"
          [] t = "[" -> "parseArrayLiteral"
          [] t \in {"-", "!", "++", "--"} -> "parsePrefixExpression"
          [] t = "(" -> "parseGroupedExpression"
          [] t = "FUNCTION" -> "parseFunctionLiteral"
          [] t = "{" -> "parseHashExpression"]

infixParseFns ==
    [t \in DOMAIN precedences |->
        CASE t \in {"+", "-", "*", "/", "%", "==", "!=", "<", "<=", ">", ">=",
                    "&&", "||"} -> "parseInfixExpression"
          [] t = "(" -> "parseCallExpression"
          [] t = "[" -> "parseIndexExpression"
          [] t = "." -> "parseMethodCallExpression"
          [] t = ":" -> "parseSliceExpression"
          [] t \in {"=", "+=", "-=", "*=", "/="} -> "parseAssignExpression"
          [] t \in {"++", "--"} -> "parsePostfixExpression"]

----------------------------------------------------------------------------
(* parser: the Parser over a token sequence ts.  The lexer hands out the   *)
(* tokens of ts and then EOF for ever; curToken is the token at position   *)
(* cur and peekToken the one after it.  A parsing function is an operator  *)
(* from the Parser to the Parser it leaves and the node it returns.  A Go  *)
(* panic sets `fault`: nothing runs after it.                              *)

\* parser.New: the first two tokens are read.
NewParser == [cur |-> 1, errors |-> << >>, fault |-> FALSE]

At(ts, k) == IF k <= Len(ts) THEN ts[k] ELSE EOF
curToken(ts, p) == At(ts, p.cur)
peekToken(ts, p) == At(ts, p.cur + 1)
curTokenIs(ts, p, typ) == curToken(ts, p).Type = typ
peekTokenIs(ts, p, typ) == peekToken(ts, p).Type = typ
nextToken(p) == [p EXCEPT !.cur = @ + 1]

peekError(ts, p, typ) ==
    [p EXCEPT !.errors =
        Append(@, "expected token to be " \o typ \o ", got "
                      \o peekToken(ts, p).Type \o " instead")]

noPrefixParseFnError(p, t) ==
    [p EXCEPT !.errors = Append(@, "no prefix parse function for " \o t \o " found")]

expectPeek(ts, p, typ) ==
    IF peekTokenIs(ts, p, typ)
    THEN [p |-> nextToken(p), ok |-> TRUE]
    ELSE [p |-> peekError(ts, p, typ), ok |-> FALSE]

peekPrecedence(ts, p) ==
    IF peekToken(ts, p).Type \in DOMAIN precedences
    THEN precedences[peekToken(ts, p).Type]
    ELSE LOWEST

curPrecedence(ts, p) ==
    IF curToken(ts, p).Type \in DOMAIN precedences
    THEN precedences[curToken(ts, p).Type]
    ELSE LOWEST

\* What a parsing function hands back: the Parser after it and its node
\* (or its list of nodes).
Yield(p, e) == [p |-> p, e |-> e]

\* The rest K of a parsing function, run on what the call before it left.
Then(r, K(_)) == K(r)

\* A nil pointer dereference.
ParserPanic(p) == [p EXCEPT !.fault = TRUE]

\* strconv.ParseInt(literal, 10, 64) on the literals the inputs contain:
\* one decimal digit, or a literal that is out of the range of int64.
OutOfRange == "9223372036854775808"
Decimal == [lit \in {"0", "1", "2", "3", "4", "5", "6", "7", "8", "9"} |->
               CHOOSE d \in 0..9 : ToString(d) = lit]

RECURSIVE parseExpression(_, _, _)
RECURSIVE parseStatement(_, _)

parseIdentifier(ts, p) == Yield(p, Identifier(curToken(ts, p).Literal))

parseIntegerLiteral(ts, p) ==
    IF curToken(ts, p).Literal \in DOMAIN Decimal
    THEN Yield(p, IntegerLiteral(Decimal[curToken(ts, p).Literal]))
    ELSE Yield([p EXCEPT !.errors =
                   Append(@, "could not parse " \o curToken(ts, p).Literal
                                 \o " as integer")],
               NilNode)

\* The loop of parseExpressionList and its end.  A nil list is the empty
\* list.
RECURSIVE ExpressionListLoop(_, _, _, _)
ExpressionListLoop(ts, p, list, end) ==
    IF ~p.fault /\ peekTokenIs(ts, p, ",")
    THEN Then(parseExpression(ts, nextToken(nextToken(p)), LOWEST), LAMBDA r :
              ExpressionListLoop(ts, r.p, Append(list, r.e), end))
    ELSE Then(expectPeek(ts, p, end), LAMBDA x :
              IF x.ok THEN Yield(x.p, list) ELSE Yield(x.p, << >>))

parseExpressionList(ts, p, end) ==
    IF peekTokenIs(ts, p, end)
    THEN Yield(nextToken(p), << >>)
    ELSE Then(parseExpression(ts, nextToken(p), LOWEST), LAMBDA r :
              ExpressionListLoop(ts, r.p, <<r.e>>, end))

parseArrayLiteral(ts, p) ==
    Then(parseExpressionList(ts, p, "]"), LAMBDA r :
         Yield(r.p, ArrayLiteral(r.e)))

\* Every token is taken as a parameter name, whatever its type.
RECURSIVE FunctionParametersLoop(_, _, _)
FunctionParametersLoop(ts, p, idents) ==
    IF peekTokenIs(ts, p, ",")
    THEN FunctionParametersLoop(ts, nextToken(nextToken(p)),
             Append(idents, curToken(ts, nextToken(nextToken(p))).Literal))
    ELSE Then(expectPeek(ts, p, ")"), LAMBDA x :
              IF x.ok THEN Yield(x.p, idents) ELSE Yield(x.p, << >>))

parseFunctionParameters(ts, p) ==
    IF peekTokenIs(ts, p, ")")
    THEN Yield(nextToken(p), << >>)
    ELSE FunctionParametersLoop(ts, nextToken(p),
                                <<curToken(ts, nextToken(p)).Literal>>)

RECURSIVE BlockStatementLoop(_, _, _)
BlockStatementLoop(ts, p, stmts) ==
    IF ~p.fault /\ ~curTokenIs(ts, p, "}") /\ ~curTokenIs(ts, p, "EOF")
    THEN Then(parseStatement(ts, p), LAMBDA r :
              BlockStatementLoop(ts, nextToken(r.p), Append(stmts, r.e)))
    ELSE Yield(p, BlockStatement(stmts))

parseBlockStatement(ts, p) == BlockStatementLoop(ts, nextToken(p), << >>)

parseFunctionLiteral(ts, p) ==
    Then(expectPeek(ts, p, "("), LAMBDA x :
    IF ~x.ok THEN Yield(x.p, NilNode)
    ELSE Then(parseFunctionParameters(ts, x.p), LAMBDA ps :
         Then(expectPeek(ts, ps.p, "{"), LAMBDA y :
         IF ~y.ok THEN Yield(y.p, NilNode)
         ELSE Then(parseBlockStatement(ts, y.p), LAMBDA body :
                   Yield(body.p, FunctionLiteral(ps.e, body.e))))))

parsePrefixExpression(ts, p) ==
    Then(parseExpression(ts, nextToken(p), PREFIX), LAMBDA r :
         Yield(r.p, PrefixExpression(curToken(ts, p).Literal, r.e)))

parseGroupedExpression(ts, p) ==
    Then(parseExpression(ts, nextToken(p), LOWEST), LAMBDA r :
    Then(expectPeek(ts, r.p, ")"), LAMBDA x :
         IF x.ok THEN Yield(x.p, r.e) ELSE Yield(x.p, NilNode)))

\* hash.Pairs[key] = value: a key that failed to parse is the nil key, of
\* which the map holds one entry.
PutNode(pairs, key, value) ==
    IF key = NilNode /\ \E i \in DOMAIN pairs : pairs[i].Key = NilNode
    THEN [i \in DOMAIN pairs |->
             IF pairs[i].Key = NilNode THEN [Key |-> key, Value |-> value]
             ELSE pairs[i]]
    ELSE Append(pairs, [Key |-> key, Value |-> value])

RECURSIVE HashLoop(_, _, _)
HashLoop(ts, p, pairs) ==
    IF ~p.fault /\ ~curTokenIs(ts, p, "}")
    THEN Then(parseExpression(ts, nextToken(p), SLICE), LAMBDA key :
         Then(expectPeek(ts, key.p, ":"), LAMBDA x :
         IF ~x.ok THEN Yield(x.p, NilNode)
         ELSE Then(parseExpression(ts, nextToken(x.p), LOWEST), LAMBDA value :
                   HashLoop(ts, nextToken(value.p),
                            PutNode(pairs, key.e, value.e)))))
    ELSE Yield(p, HashLiteral(pairs))

parseHashExpression(ts, p) ==
    IF peekTokenIs(ts, p, "}")
    THEN Yield(nextToken(p), HashLiteral(<< >>))
    ELSE HashLoop(ts, p, << >>)

\* An infix function that would parse its right operand one level lower,
\* so that equal levels group to the right.
parseInfixExpressionLower(ts, p, left) ==
    Then(parseExpression(ts, nextToken(p), curPrecedence(ts, p) - 1), LAMBDA r :
         Yield(r.p, InfixExpression(left, curToken(ts, p).Literal, r.e)))

parseInfixExpression(ts, p, left) ==
    Then(parseExpression(ts, nextToken(p), curPrecedence(ts, p)), LAMBDA r :
         Yield(r.p, InfixExpression(left, curToken(ts, p).Literal, r.e)))

parsePostfixExpression(ts, p, left) ==
    Yield(p, PostfixExpression(left, curToken(ts, p).Literal))

parseCallExpression(ts, p, left) ==
    Then(parseExpressionList(ts, p, ")"), LAMBDA r :
         Yield(r.p, CallExpression(left, r.e)))

parseSliceExpression(ts, p, left) ==
    IF peekTokenIs(ts, p, "]")
    THEN Yield(p, SliceExpression(left, NilNode))
    ELSE Then(parseExpression(ts, nextToken(p), LOWEST), LAMBDA r :
              Yield(r.p, SliceExpression(left, r.e)))

parseIndexExpression(ts, p, left) ==
    Then(IF peekTokenIs(ts, p, ":")
         THEN parseSliceExpression(ts, nextToken(p), IntegerLiteral(0))
         ELSE parseExpression(ts, nextToken(p), LOWEST), LAMBDA index :
    Then(expectPeek(ts, index.p, "]"), LAMBDA x :
         IF x.ok THEN Yield(x.p, IndexExpression(left, index.e))
         ELSE Yield(x.p, NilNode)))

parseMethodCallExpression(ts, p, left) ==
    Then(IF ~peekTokenIs(ts, nextToken(p), "(")
         THEN parseExpression(ts, nextToken(p), LOWEST)
         ELSE parseCallExpression(ts, nextToken(nextToken(p)),
                                  parseIdentifier(ts, nextToken(p)).e),
         LAMBDA call : Yield(call.p, MethodCallExpression(left, call.e)))

\* name.TokenLiteral() of the error message is a method call on the
\* interface value name: it panics when name is nil.
parseAssignExpression(ts, p, name) ==
    IF name.kind \in {"Identifier", "IndexExpression"}
    THEN Then(parseExpression(ts, nextToken(p), LOWEST), LAMBDA r :
              Yield(r.p, AssignExpression(name, curToken(ts, p).Literal, r.e)))
    ELSE IF name = NilNode
    THEN Yield(ParserPanic(p), NilNode)
    ELSE Yield([p EXCEPT !.errors =
                   Append(@, "expected assign token to be an identifier")],
               AssignExpression(NilNode, curToken(ts, p).Literal, NilNode))

prefix(ts, p) ==
    CASE prefixParseFns[curToken(ts, p).Type] = "parseIdentifier" ->
             parseIdentifier(ts, p)
      [] prefixParseFns[curToken(ts, p).Type] = "parseIntegerLiteral" ->
             parseIntegerLiteral(ts, p)
      [] prefixParseFns[curToken(ts, p).Type] = "parseArrayLiteral" ->
             parseArrayLiteral(ts, p)
      [] prefixParseFns[curToken(ts, p).Type] = "parsePrefixExpression" ->
             parsePrefixExpression(ts, p)
      [] prefixParseFns[curToken(ts, p).Type] = "parseGroupedExpression" ->
             parseGroupedExpression(ts, p)
      [] prefixParseFns[curToken(ts, p).Type] = "parseFunctionLiteral" ->
             parseFunctionLiteral(ts, p)
      [] prefixParseFns[curToken(ts, p).Type] = "parseHashExpression" ->
             parseHashExpression(ts, p)

infix(ts, p, left) ==
    CASE infixParseFns[curToken(ts, p).Type] = "parseInfixExpression" ->
             parseInfixExpression(ts, p, left)
      [] infixParseFns[curToken(ts, p).Type] = "parseCallExpression" ->
             parseCallExpression(ts, p, left)
      [] infixParseFns[curToken(ts, p).Type] = "parseIndexExpression" ->
             parseIndexExpression(ts, p, left)
      [] infixParseFns[curToken(ts, p).Type] = "parseMethodCallExpression" ->
             parseMethodCallExpression(ts, p, left)
      [] infixParseFns[curToken(ts, p).Type] = "parseSliceExpression" ->
             parseSliceExpression(ts, p, left)
      [] infixParseFns[curToken(ts, p).Type] = "parseAssignExpression" ->
             parseAssignExpression(ts, p, left)
      [] infixParseFns[curToken(ts, p).Type] = "parsePostfixExpression" ->
             parsePostfixExpression(ts, p, left)

\* The loop of parseExpression on what the prefix function left: the infix
\* functions are called again and again while the next token binds tighter
\* than `precedence`.
RECURSIVE InfixLoop(_, _, _)
InfixLoop(ts, l, precedence) ==
    IF /\ ~l.p.fault
       /\ ~peekTokenIs(ts, l.p, ";")
       /\ precedence < peekPrecedence(ts, l.p)
    THEN IF peekToken(ts, l.p).Type \notin DOMAIN infixParseFns
         THEN l
         ELSE InfixLoop(ts, infix(ts, nextToken(l.p), l.e), precedence)
    ELSE l

parseExpression(ts, p, precedence) ==
    IF p.fault \/ curTokenIs(ts, p, ";")
    THEN Yield(p, NilNode)
    ELSE IF curToken(ts, p).Type \notin DOMAIN prefixParseFns
    THEN Yield(noPrefixParseFnError(p, curToken(ts, p).Type), NilNode)
    ELSE InfixLoop(ts, prefix(ts, p), precedence)

parseExpressionStatement(ts, p) ==
    Then(parseExpression(ts, p, LOWEST), LAMBDA r :
         Yield(r.p, ExpressionStatement(r.e)))

parseLetStatement(ts, p) ==
    Then(expectPeek(ts, p, "IDENT"), LAMBDA x :
    Then(expectPeek(ts, x.p, "="), LAMBDA y :
    Then(IF y.ok THEN parseExpressionStatement(ts, nextToken(y.p))
         ELSE Yield(y.p, ExpressionStatement(NilNode)), LAMBDA r :
         Yield(r.p, [kind |-> "LetStatement",
                     Name |-> IF x.ok THEN Identifier(curToken(ts, x.p).Literal)
                              ELSE NilNode,
                     Value |-> r.e.Expression]))))

parseReturnStatement(ts, p) ==
    IF peekTokenIs(ts, p, ";")
    THEN Yield(nextToken(p), ReturnStatement(NilNode))
    ELSE Then(parseExpressionStatement(ts, nextToken(p)), LAMBDA r :
              Yield(r.p, ReturnStatement(r.e.Expression)))

parseStatement(ts, p) ==
    CASE curToken(ts, p).Type = "LET" -> parseLetStatement(ts, p)
      [] curToken(ts, p).Type = "RETURN" -> parseReturnStatement(ts, p)
      [] OTHER -> parseExpressionStatement(ts, p)

----------------------------------------------------------------------------
(* ast: String() of the expressions and of the Program.  The result is a  *)
(* Go string; the statements and literals other than these are not        *)
(* rendered here.  String() of an IntegerLiteral is the literal of its     *)
(* token, which for the decimal literals above is the decimal of Value.    *)

RECURSIVE Join(_, _)
Join(strs, sep) ==
    IF strs = << >> THEN ""
    ELSE IF Len(strs) = 1 THEN strs[1]
    ELSE strs[1] \o sep \o Join(Tail(strs), sep)

RECURSIVE String(_)
String(node) ==
    CASE node.kind = "Program" ->
             Join([i \in DOMAIN node.Statements |-> String(node.Statements[i])], "")
      [] node.kind = "ExpressionStatement" ->
             IF node.Expression # NilNode THEN String(node.Expression) ELSE ""
      [] node.kind = "Identifier" -> node.Value
      [] node.kind = "IntegerLiteral" -> ToString(node.Value)
      [] node.kind = "PrefixExpression" ->
             "(" \o node.Operator \o String(node.Right) \o ")"
      [] node.kind = "InfixExpression" ->
             "(" \o String(node.Left) \o " " \o node.Operator \o " "
                 \o String(node.Right) \o ")"
      [] node.kind = "PostfixExpression" ->
             "(" \o String(node.Left) \o node.Operator \o ")"
      [] node.kind = "CallExpression" ->
             String(node.Function) \o "("
                 \o Join([i \in DOMAIN node.Arguments |-> String(node.Arguments[i])], ", ")
                 \o ")"
      [] node.kind = "AssignExpression" ->
             String(node.Name) \o node.Operator \o String(node.Value)
      [] node.kind = "IndexExpression" ->
             "(" \o String(node.Left) \o "[" \o String(node.Index) \o "])"

----------------------------------------------------------------------------
(* ParseProgram over the token sequence `tokens`: one turn of its loop per *)
(* step.  `parser` holds the Parser, the Statements of the Program built   *)
(* so far and whether ParseProgram has returned.                           *)

Parsing == status = "parsing" /\ ~parser.done /\ ~parser.p.fault

\* The test ParseProgram makes before its loop: the input is `;` alone.
OnlySemicolon ==
    /\ parser.p.cur = 1
    /\ curTokenIs(tokens, parser.p, ";")
    /\ peekTokenIs(tokens, parser.p, "EOF")

ParseProgramLoop ==
    /\ Parsing
    /\ ~OnlySemicolon
    /\ ~curTokenIs(tokens, parser.p, "EOF")
    /\ parser' = Then(parseStatement(tokens, parser.p), LAMBDA stmt :
                      IF stmt.p.fault
                      THEN [parser EXCEPT !.p = stmt.p]
                      ELSE [parser EXCEPT !.p = nextToken(stmt.p),
                                          !.Statements = Append(@, stmt.e)])
    /\ UNCHANGED <<tokens, program, stack, heap, scopes, cancelled, status,
                   result, steps>>

ParseProgramReturn ==
    /\ Parsing
    /\ OnlySemicolon \/ curTokenIs(tokens, parser.p, "EOF")
    /\ parser' = [parser EXCEPT !.done = TRUE]
    /\ UNCHANGED <<tokens, program, stack, heap, scopes, cancelled, status,
                   result, steps>>

\* Every sequence of at most MaxTokens tokens of TokenAlphabet.
MaxTokens == 4

TokenAlphabet ==
    {IDENT("a"), INT("3"), Op("="), Op("+"), Op("("), Op(")"), Op(";"),
     Token("FUNCTION", "function")}

TokenSequences == UNION {[1..n -> TokenAlphabet] : n \in 0..MaxTokens}

\* Chains of binary operators: x1 op x2 op ... with at most MaxOperators
\* operators, one operator of each level and two of SUM.
MaxOperators == 3

ChainOperators == {"||", "&&", "==", "<", "+", "-", "*"}

OperandNames == <<"a", "b", "c", "d", "e">>

Chain(ops) ==
    [i \in 1..(2 * Len(ops) + 1) |->
        IF i % 2 = 1 THEN IDENT(OperandNames[(i + 1) \div 2]) ELSE Op(ops[i \div 2])]

Chains == {Chain(ops) : ops \in UNION {[1..n -> ChainOperators] : n \in 0..MaxOperators}}

\* One binary operator between two operands, each with or without a prefix
\* operator and with or without a postfix operator, a call or an index.
PrefixForms == {<< >>, <<Op("-")>>, <<Op("!")>>}

PostfixForms ==
    {<< >>, <<Op("++")>>, <<Op("--")>>, <<Op("("), Op(")")>>,
     <<Op("["), INT("0"), Op("]")>>}

Operand(pre, name, post) == pre \o <<IDENT(name)>> \o post

Unaries ==
    {Operand(form[1], "a", form[2]) \o <<Op(form[3])>> \o Operand(form[4], "b", form[5]) :
        form \in PrefixForms \X PostfixForms \X ChainOperators
                    \X PrefixForms \X PostfixForms}

\* x op y as= z and x as= y op z, for every binary and assignment operator.
BinaryOperators ==
    {"+", "-", "*", "/", "%", "==", "!=", "<", "<=", ">", ">=", "&&", "||"}

AssignOperators == {"=", "+=", "-=", "*=", "/="}

Assignments ==
    {<<IDENT("a"), Op(o[1]), IDENT("b"), Op(o[2]), INT("1")>> :
        o \in (BinaryOperators \X AssignOperators)
                 \cup (AssignOperators \X BinaryOperators)}

\* Inputs of the other constructs: `let a = [1, 2]; return a[:1];`,
\* `{1: 2, a: b}.len()`, `a.b`, `function(a, b) { let c = a; c }(1)`,
\* `let = ;`, `(a`, `a[1:2] = 9223372036854775808`, `;`, `return;`.
Examples ==
    {<<Token("LET", "let"), IDENT("a"), Op("="), Op("["), INT("1"), Op(","),
       INT("2"), Op("]"), Op(";"), Token("RETURN", "return"), IDENT("a"),
       Op("["), Op(":"), INT("1"), Op("]"), Op(";")>>,
     <<Op("{"), INT("1"), Op(":"), INT("2"), Op(","), IDENT("a"), Op(":"),
       IDENT("b"), Op("}"), Op("."), IDENT("len"), Op("("), Op(")")>>,
     <<IDENT("a"), Op("."), IDENT("b")>>,
     <<Token("FUNCTION", "function"), Op("("), IDENT("a"), Op(","), IDENT("b"),
       Op(")"), Op("{"), Token("LET", "let"), IDENT("c"), Op("="), IDENT("a"),
       Op(";"), IDENT("c"), Op("}"), Op("("), INT("1"), Op(")")>>,
     <<Token("LET", "let"), Op("="), Op(";")>>,
     <<Op("("), IDENT("a")>>,
     <<IDENT("a"), Op("["), INT("1"), Op(":"), INT("2"), Op("]"), Op("="),
       INT(OutOfRange)>>,
     <<Op(";")>>,
     <<Token("RETURN", "return"), Op(";")>>}

Inputs == TokenSequences \cup Chains \cup Unaries \cup Assignments \cup Examples

ParserInit ==
    /\ tokens \in Inputs
    /\ parser = [p |-> NewParser, Statements |-> << >>, done |-> FALSE]
    /\ program = 0
    /\ scopes = << >>
    /\ stack = << >>
    /\ heap = InitHeap
    /\ cancelled = FALSE
    /\ status = "parsing"
    /\ result = NIL
    /\ steps = 0

ParserNext == ParseProgramLoop \/ ParseProgramReturn

ParserSpec == ParserInit /\ [][ParserNext]_vars

----------------------------------------------------------------------------
(* The context: its deadline may pass at any moment of a run.              *)

Cancel ==
    /\ status = "running"
    /\ ~cancelled
    /\ cancelled' = TRUE
    /\ UNCHANGED <<tokens, parser, program, stack, heap, scopes, status, result, steps>>

----------------------------------------------------------------------------
(* The programs that are run: the trees ParseProgram builds for the source *)
(* text quoted with each.  `;` between statements parses to an             *)
(* ExpressionStatement without Expression.                                 *)

ES(e) == ExpressionStatement(e)
Id(n) == Identifier(n)
Num(v) == IntegerLiteral(v)
True == BooleanLiteral(TRUE)
Empty == ExpressionStatement(NilNode)
Blk(stmts) == BlockStatement(stmts)
Let(n, e) == LetStatement(n, e)
Asg(n, op, e) == AssignExpression(Identifier(n), op, e)
If1(c, stmts) == IfExpression(c, BlockStatement(stmts), NilNode)
Bin(l, op, r) == InfixExpression(l, op, r)
Call(f, args) == CallExpression(Identifier(f), args)
Fn(ps, stmts) == FunctionLiteral(ps, BlockStatement(stmts))
While(c, stmts) == WhileExpression(c, BlockStatement(stmts))
For(init, c, upd, stmts) == ForExpression(init, c, upd, BlockStatement(stmts))

\* The statements X of SequencePrograms: some stop the sequence, some not.
SequenceStatements ==
    << ES(Id("u")),                                           \* u
       ReturnStatement(Id("a")),                              \* return a
       ReturnStatement(NilNode),                              \* return;
       ES(Num(9)),                                            \* 9
       \* if (true) { return 2; a = 3 }
       ES(If1(True, <<ReturnStatement(Num(2)), Empty, ES(Asg("a", "=", Num(3)))>>)),
       \* if (true) { u; a = 3 }
       ES(If1(True, <<ES(Id("u")), Empty, ES(Asg("a", "=", Num(3)))>>)),
       \* if (true) { if (true) { return 10 } return 1 }
       ES(If1(True, <<ES(If1(True, <<ReturnStatement(Num(10))>>)),
                      ReturnStatement(Num(1))>>)),
       ReturnStatement(Id("u")),                              \* return u
       \* if (true) { a = 3; 4 }
       ES(If1(True, <<ES(Asg("a", "=", Num(3))), Empty, ES(Num(4))>>)) >>

\* let a = 1; X; a = 5; a
SequencePrograms ==
    [k \in 1..Len(SequenceStatements) |->
        Program(<<Let("a", Num(1)), Empty, SequenceStatements[k], Empty,
                  ES(Asg("a", "=", Num(5))), Empty, ES(Id("a"))>>)]

\* The bodies of f in FunctionPrograms: a return at some depth of if-blocks
\* and loops.
ReturnBodies ==
    << <<ReturnStatement(Num(5))>>,                           \* return 5
       <<ES(If1(Id("x"), <<ReturnStatement(Num(5))>>))>>,     \* if (x) { return 5 }
       <<ES(While(True, <<ReturnStatement(Num(5))>>))>>,      \* while (true) { return 5 }
       \* for (;;) { return 5 }
       <<ES(For(NilNode, NilNode, NilNode, <<ReturnStatement(Num(5))>>))>>,
       \* while (x) { return; }
       <<ES(While(Id("x"), <<ReturnStatement(NilNode), Empty>>))>>,
       \* for (let i = 0; i < 3; i += 1) { if (i == 1) { return i } }
       <<ES(For(Let("i", Num(0)), Bin(Id("i"), "<", Num(3)), Asg("i", "+=", Num(1)),
                <<ES(If1(Bin(Id("i"), "==", Num(1)), <<ReturnStatement(Id("i"))>>))>>))>>,
       \* if (x) { while (x) { if (x) { return 5 } } }
       <<ES(If1(Id("x"),
                <<ES(While(Id("x"),
                           <<ES(If1(Id("x"), <<ReturnStatement(Num(5))>>))>>))>>))>>,
       \* let y = if (x) { return 5 }
       <<Let("y", If1(Id("x"), <<ReturnStatement(Num(5))>>))>>,
       \* return if (x) { return 5 }
       <<ReturnStatement(If1(Id("x"), <<ReturnStatement(Num(5))>>))>> >>

\* let a = 0; let f = function(x) { BODY; a = 9; 7 }; f(1); a += 1; a
FunctionPrograms ==
    [k \in 1..Len(ReturnBodies) |->
        Program(<<Let("a", Num(0)), Empty,
                  Let("f", Fn(<<"x">>, ReturnBodies[k] \o
                                <<Empty, ES(Asg("a", "=", Num(9))), Empty, ES(Num(7))>>)),
                  Empty, ES(Call("f", <<Num(1)>>)), Empty,
                  ES(Asg("a", "+=", Num(1))), Empty, ES(Id("a"))>>)]

\* Closures, parameters and the kinds of callee.
ClosurePrograms ==
    << \* let x = 1; let f = function(y) { x + y }; let g = function(x) { f(10) }; g(100)
       Program(<<Let("x", Num(1)), Empty,
                 Let("f", Fn(<<"y">>, <<ES(Bin(Id("x"), "+", Id("y")))>>)), Empty,
                 Let("g", Fn(<<"x">>, <<ES(Call("f", <<Num(10)>>))>>)), Empty,
                 ES(Call("g", <<Num(100)>>))>>),
       \* let x = 1; let f = function(x) { x = x + 1; x }; f(5); x
       Program(<<Let("x", Num(1)), Empty,
                 Let("f", Fn(<<"x">>, <<ES(Asg("x", "=", Bin(Id("x"), "+", Num(1)))),
                                        Empty, ES(Id("x"))>>)), Empty,
                 ES(Call("f", <<Num(5)>>)), Empty, ES(Id("x"))>>),
       \* let f = function(a) { function(b) { a + b } }; let g = f(1); let a = 50; g(2)
       Program(<<Let("f", Fn(<<"a">>,
                     <<ES(Fn(<<"b">>, <<ES(Bin(Id("a"), "+", Id("b")))>>))>>)), Empty,
                 Let("g", Call("f", <<Num(1)>>)), Empty,
                 Let("a", Num(50)), Empty, ES(Call("g", <<Num(2)>>))>>),
       \* let f = function() { y }; let g = function(y) { f() }; g(3)
       Program(<<Let("f", Fn(<< >>, <<ES(Id("y"))>>)), Empty,
                 Let("g", Fn(<<"y">>, <<ES(Call("f", << >>))>>)), Empty,
                 ES(Call("g", <<Num(3)>>))>>),
       \* let f = function(x, y) { x }; f(1)
       Program(<<Let("f", Fn(<<"x", "y">>, <<ES(Id("x"))>>)), Empty,
                 ES(Call("f", <<Num(1)>>))>>),
       \* let f = function(x) { x }; f(1, 2, u)
       Program(<<Let("f", Fn(<<"x">>, <<ES(Id("x"))>>)), Empty,
                 ES(Call("f", <<Num(1), Num(2), Id("u")>>))>>),
       \* let a = 1; a(2)
       Program(<<Let("a", Num(1)), Empty, ES(Call("a", <<Num(2)>>))>>),
       \* print(1, 2); len(1); len(); u(1)
       Program(<<ES(Call("print", <<Num(1), Num(2)>>)), Empty,
                 ES(Call("len", <<Num(1)>>))>>),
       Program(<<ES(Call("len", << >>))>>),
       Program(<<ES(Call("u", <<Num(1)>>))>>) >>

LetPrograms ==
    << \* let a = 1; let a = 2; a
       Program(<<Let("a", Num(1)), Empty, Let("a", Num(2)), Empty, ES(Id("a"))>>),
       \* let a = 1; let f = function() { let a = 2; a }; f(); a
       Program(<<Let("a", Num(1)), Empty,
                 Let("f", Fn(<< >>, <<Let("a", Num(2)), Empty, ES(Id("a"))>>)), Empty,
                 ES(Call("f", << >>)), Empty, ES(Id("a"))>>),
       \* let a = u; a
       Program(<<Let("a", Id("u")), Empty, ES(Id("a"))>>),
       \* let a = 1; if (true) { let a = 2 }
       Program(<<Let("a", Num(1)), Empty, ES(If1(True, <<Let("a", Num(2))>>))>>),
       \* let a = 1; for (let a = 2; a < 4; a += 1) { let a = 9 }; a
       Program(<<Let("a", Num(1)), Empty,
                 ES(For(Let("a", Num(2)), Bin(Id("a"), "<", Num(4)),
                        Asg("a", "+=", Num(1)), <<Let("a", Num(9))>>)), Empty,
                 ES(Id("a"))>>),
       \* let b = ;
       Program(<<Let("b", NilNode), Empty>>),
       \* let a = 1 / 0; let a = 3
       Program(<<Let("a", Bin(Num(1), "/", Num(0))), Empty, Let("a", Num(3))>>) >>

AssignPrograms ==
    << Program(<<ES(Asg("u", "=", Num(1)))>>),                \* u = 1
       Program(<<ES(Asg("u", "+=", Num(1)))>>),               \* u += 1
       \* let a = 1; let f = function() { a = 2 }; f(); a
       Program(<<Let("a", Num(1)), Empty,
                 Let("f", Fn(<< >>, <<ES(Asg("a", "=", Num(2)))>>)), Empty,
                 ES(Call("f", << >>)), Empty, ES(Id("a"))>>),
       \* let a = 1; for (;;) { a += 1; break }; a
       Program(<<Let("a", Num(1)), Empty,
                 ES(For(NilNode, NilNode, NilNode,
                        <<ES(Asg("a", "+=", Num(1))), Empty, ES(BreakExpression)>>)),
                 Empty, ES(Id("a"))>>),
       \* let a = 1; let f = function(a) { a = 5 }; f(2); a
       Program(<<Let("a", Num(1)), Empty,
                 Let("f", Fn(<<"a">>, <<ES(Asg("a", "=", Num(5)))>>)), Empty,
                 ES(Call("f", <<Num(2)>>)), Empty, ES(Id("a"))>>),
       \* let a = 6; a -= 1; a *= 4; a /= 3; a
       Program(<<Let("a", Num(6)), Empty, ES(Asg("a", "-=", Num(1))), Empty,
                 ES(Asg("a", "*=", Num(4))), Empty, ES(Asg("a", "/=", Num(3))), Empty,
                 ES(Id("a"))>>),
       \* let b = true; b += 1
       Program(<<Let("b", True), Empty, ES(Asg("b", "+=", Num(1)))>>),
       \* let a = 1; a /= 0
       Program(<<Let("a", Num(1)), Empty, ES(Asg("a", "/=", Num(0)))>>),
       \* let a = 1; a += true
       Program(<<Let("a", Num(1)), Empty, ES(Asg("a", "+=", True))>>),
       \* let a = 1; a = u
       Program(<<Let("a", Num(1)), Empty, ES(Asg("a", "=", Id("u")))>>),
       \* let a = 1; let f = function() { while (a < 2) { u -= a } }; f()
       Program(<<Let("a", Num(1)), Empty,
                 Let("f", Fn(<< >>, <<ES(While(Bin(Id("a"), "<", Num(2)),
                                            <<ES(Asg("u", "-=", Id("a")))>>))>>)),
                 Empty, ES(Call("f", << >>))>>),
       \* let a = 1; a = ;
       Program(<<Let("a", Num(1)), Empty, ES(Asg("a", "=", NilNode)), Empty>>),
       \* u = 1 / 0
       Program(<<ES(Asg("u", "=", Bin(Num(1), "/", Num(0))))>>) >>

\* if (i == 1) { continue }
ContinueAtOne == ES(If1(Bin(Id("i"), "==", Num(1)), <<ES(ContinueExpression)>>))

ForPrograms ==
    << \* for (;;) { continue }
       Program(<<ES(For(NilNode, NilNode, NilNode, <<ES(ContinueExpression)>>))>>),
       \* let a = 0; for (let i = 0; i < 2; i += 1) { if (i == 1) { continue }; a += 1 }; a
       Program(<<Let("a", Num(0)), Empty,
                 ES(For(Let("i", Num(0)), Bin(Id("i"), "<", Num(2)),
                        Asg("i", "+=", Num(1)),
                        <<ContinueAtOne, Empty, ES(Asg("a", "+=", Num(1)))>>)),
                 Empty, ES(Id("a"))>>),
       \* for (let i = 0; ; i += 1) { if (i == 2) { break }; continue }
       Program(<<ES(For(Let("i", Num(0)), NilNode, Asg("i", "+=", Num(1)),
                        <<ES(If1(Bin(Id("i"), "==", Num(2)), <<ES(BreakExpression)>>)),
                          Empty, ES(ContinueExpression)>>))>>),
       \* for (let i = 0; i < 2; ) { i += 1; continue }
       Program(<<ES(For(Let("i", Num(0)), Bin(Id("i"), "<", Num(2)), NilNode,
                        <<ES(Asg("i", "+=", Num(1))), Empty, ES(ContinueExpression)>>))>>),
       \* let a = 0; for (let i = 0; i < 2; i += 1) { let b = i; a += b }; b
       Program(<<Let("a", Num(0)), Empty,
                 ES(For(Let("i", Num(0)), Bin(Id("i"), "<", Num(2)),
                        Asg("i", "+=", Num(1)),
                        <<Let("b", Id("i")), Empty, ES(Asg("a", "+=", Id("b")))>>)),
                 Empty, ES(Id("b"))>>),
       \* for (let i = 0; i < 3; i += 1) { let b = 1 }; i
       Program(<<ES(For(Let("i", Num(0)), Bin(Id("i"), "<", Num(3)),
                        Asg("i", "+=", Num(1)), <<Let("b", Num(1))>>)),
                 Empty, ES(Id("i"))>>),
       \* for (let i = 0; i < 3; u += 1) { continue }
       Program(<<ES(For(Let("i", Num(0)), Bin(Id("i"), "<", Num(3)),
                        Asg("u", "+=", Num(1)), <<ES(ContinueExpression)>>))>>),
       \* for (let i = 0; (1 - i) / (1 - i); i += 1) { continue }
       Program(<<ES(For(Let("i", Num(0)),
                        Bin(Bin(Num(1), "-", Id("i")), "/", Bin(Num(1), "-", Id("i"))),
                        Asg("i", "+=", Num(1)), <<ES(ContinueExpression)>>))>>),
       \* for (let i = 0; (1 - i) / (1 - i); i += 1) { i += 0 }
       Program(<<ES(For(Let("i", Num(0)),
                        Bin(Bin(Num(1), "-", Id("i")), "/", Bin(Num(1), "-", Id("i"))),
                        Asg("i", "+=", Num(1)), <<ES(Asg("i", "+=", Num(0)))>>))>>),
       \* for (let i = u; ; ) { }    and    for (; u; ) { }
       Program(<<ES(For(Let("i", Id("u")), NilNode, NilNode, << >>))>>),
       Program(<<ES(For(NilNode, Id("u"), NilNode, << >>))>>),
       \* let i = 0; for (; i < 2; i += 1) { }; i
       Program(<<Let("i", Num(0)), Empty,
                 ES(For(NilNode, Bin(Id("i"), "<", Num(2)), Asg("i", "+=", Num(1)),
                        << >>)), Empty, ES(Id("i"))>>),
       \* let i = 0; for (; ; ) { i += 1; if (i == 2) { return; } }
       Program(<<Let("i", Num(0)), Empty,
                 ES(For(NilNode, NilNode, NilNode,
                        <<ES(Asg("i", "+=", Num(1))), Empty,
                          ES(If1(Bin(Id("i"), "==", Num(2)),
                                 <<ReturnStatement(NilNode), Empty>>))>>))>>) >>

LoopPrograms ==
    << Program(<<ES(While(True, <<ES(Num(1))>>))>>),          \* while (true) { 1 }
       \* for (;;) { 1 }
       Program(<<ES(For(NilNode, NilNode, NilNode, <<ES(Num(1))>>))>>),
       \* let i = 0; while (i < 3) { i += 1; continue }; i
       Program(<<Let("i", Num(0)), Empty,
                 ES(While(Bin(Id("i"), "<", Num(3)),
                          <<ES(Asg("i", "+=", Num(1))), Empty, ES(ContinueExpression)>>)),
                 Empty, ES(Id("i"))>>),
       \* let f = function() { while (true) { 1 } }; f()
       Program(<<Let("f", Fn(<< >>, <<ES(While(True, <<ES(Num(1))>>))>>)), Empty,
                 ES(Call("f", << >>))>>),
       Program(<<ES(While(True, << >>))>>),                   \* while (true) { }
       \* let i = 0; while (i < 2) { let b = 1; i += 1 }
       Program(<<Let("i", Num(0)), Empty,
                 ES(While(Bin(Id("i"), "<", Num(2)),
                          <<Let("b", Num(1)), Empty, ES(Asg("i", "+=", Num(1)))>>))>>),
       \* while (true) { for (;;) { break } }
       Program(<<ES(While(True,
                    <<ES(For(NilNode, NilNode, NilNode, <<ES(BreakExpression)>>))>>))>>),
       \* let i = 0; while (i < 3) { i++ }; i
       Program(<<Let("i", Num(0)), Empty,
                 ES(While(Bin(Id("i"), "<", Num(3)),
                          <<ES(PostfixExpression(Id("i"), "++"))>>)), Empty,
                 ES(Id("i"))>>),
       \* let i = 0; while (i < 3) { i += 1; if (i == 2) { break } }; i
       Program(<<Let("i", Num(0)), Empty,
                 ES(While(Bin(Id("i"), "<", Num(3)),
                          <<ES(Asg("i", "+=", Num(1))), Empty,
                            ES(If1(Bin(Id("i"), "==", Num(2)), <<ES(BreakExpression)>>))>>)),
                 Empty, ES(Id("i"))>>),
       \* while (u) { 1 }    and    while () { 1 }
       Program(<<ES(While(Id("u"), <<ES(Num(1))>>))>>),
       Program(<<ES(While(NilNode, <<ES(Num(1))>>))>>),
       \* let i = 0; while (3 / (2 - i)) { i += 1 }
       Program(<<Let("i", Num(0)), Empty,
                 ES(While(Bin(Num(3), "/", Bin(Num(2), "-", Id("i"))),
                          <<ES(Asg("i", "+=", Num(1)))>>))>>),
       \* if (false) { 1 } else { 2 }    and    if (null) { 1 }
       Program(<<ES(IfExpression(BooleanLiteral(FALSE), Blk(<<ES(Num(1))>>),
                                 Blk(<<ES(Num(2))>>)))>>),
       Program(<<ES(If1(NullExpression, <<ES(Num(1))>>))>>) >>

InfixOperators ==
    <<"+", "-", "*", "/", "%", "==", "!=", "<", ">", "<=", ">=", "&&", "||">>

\* Left operands that evaluate to an Error: u and 1 / 0.
ErrorOperands == << Id("u"), Bin(Num(1), "/", Num(0)) >>

\* Right operands with a side effect on a: a = 2 and a++.
EffectOperands == << Asg("a", "=", Num(2)), PostfixExpression(Id("a"), "++") >>

\* let a = 1; L op R; a
InfixErrorPrograms ==
    [k \in 1..(Len(ErrorOperands) * Len(InfixOperators) * Len(EffectOperands)) |->
        LET l == ((k - 1) % Len(ErrorOperands)) + 1
            o == (((k - 1) \div Len(ErrorOperands)) % Len(InfixOperators)) + 1
            r == ((k - 1) \div (Len(ErrorOperands) * Len(InfixOperators))) + 1
        IN  Program(<<Let("a", Num(1)), Empty,
                      ES(Bin(ErrorOperands[l], InfixOperators[o], EffectOperands[r])),
                      Empty, ES(Id("a"))>>)]

\* Operands of the ordinary operator programs.
PlainOperands == << Num(7), Num(-2), Num(0), True, NullExpression >>

\* L op R
InfixPrograms ==
    [k \in 1..(Len(PlainOperands) * Len(InfixOperators) * Len(PlainOperands)) |->
        LET l == ((k - 1) % Len(PlainOperands)) + 1
            o == (((k - 1) \div Len(PlainOperands)) % Len(InfixOperators)) + 1
            r == ((k - 1) \div (Len(PlainOperands) * Len(InfixOperators))) + 1
        IN  Program(<<ES(Bin(PlainOperands[l], InfixOperators[o], PlainOperands[r]))>>)]

PrefixOperators == <<"!", "-", "++", "--">>

\* let a = A; let b = a; op a; a op; b
PrefixPrograms ==
    [k \in 1..(Len(PrefixOperators) * 3) |->
        LET o == ((k - 1) % Len(PrefixOperators)) + 1
            a == <<Num(3), True, Id("u")>>[((k - 1) \div Len(PrefixOperators)) + 1]
        IN  Program(<<Let("a", a), Empty, Let("b", Id("a")), Empty,
                      ES(PrefixExpression(PrefixOperators[o], Id("a"))), Empty,
                      ES(PostfixExpression(Id("a"), PrefixOperators[o])), Empty,
                      ES(Id("b"))>>)]

Arr(elems) == ArrayLiteral(elems)
Idx(l, i) == IndexExpression(l, i)
Slc(l, start, end) == IndexExpression(l, SliceExpression(start, end))
Mth(obj, name, args) == MethodCallExpression(obj, Call(name, args))
Pair(k, v) == [Key |-> k, Value |-> v]
Hsh(pairs) == HashLiteral(pairs)
AsgIdx(target, op, e) == AssignExpression(target, op, e)

\* An integer as it is written: a negative one is the prefix `-` applied
\* to a literal.
Lit(n) == IF n < 0 THEN PrefixExpression("-", Num(-n)) ELSE Num(n)

\* The array literal [1, 2, ..., n].
Upto(n) == Arr([k \in 1 .. n |-> Num(k)])

MaxLen == 3

\* Upto(L)[i] for every length L up to MaxLen and every index i from
\* -(MaxLen + 1) to MaxLen + 1.
IndexPrograms ==
    [k \in 1 .. ((MaxLen + 1) * (2 * MaxLen + 3)) |->
        LET L == (k - 1) \div (2 * MaxLen + 3)
            i == ((k - 1) % (2 * MaxLen + 3)) - (MaxLen + 1)
        IN  Program(<<ES(Idx(Upto(L), Lit(i)))>>)]

\* The windows s:e of an array of MaxLen elements and the offsets i in them.
Windows ==
    {w \in (0 .. MaxLen) \X (0 .. MaxLen) \X (0 .. MaxLen) :
        w[1] < w[2] /\ w[3] < w[2] - w[1]}

RECURSIVE SetToSeq(_)
SetToSeq(S) ==
    IF S = {} THEN << >>
    ELSE LET m == CHOOSE x \in S : \A y \in S :
                     \/ x[1] < y[1]
                     \/ x[1] = y[1] /\ x[2] < y[2]
                     \/ x[1] = y[1] /\ x[2] = y[2] /\ x[3] <= y[3]
         IN  <<m>> \o SetToSeq(S \ {m})

WindowSeq == SetToSeq(Windows)

\* The value written by the programs that assign through a slice.
Written == 9

\* let a = [1, 2, 3]; let b = a[s:e]; b[i] = 9; a[s+i]
\* let a = [1, 2, 3]; let b = a[s:e]; a[s+i] = 9; b[i]
SlicePrograms ==
    [k \in 1 .. (2 * Len(WindowSeq)) |->
        LET w == WindowSeq[((k - 1) % Len(WindowSeq)) + 1]
            inner == AsgIdx(Idx(Id("b"), Num(w[3])), "=", Num(Written))
            outer == AsgIdx(Idx(Id("a"), Num(w[1] + w[3])), "=", Num(Written))
        IN  Program(<<Let("a", Upto(MaxLen)), Empty,
                      Let("b", Slc(Id("a"), Num(w[1]), Num(w[2]))), Empty,
                      ES(IF k <= Len(WindowSeq) THEN inner ELSE outer), Empty,
                      ES(IF k <= Len(WindowSeq) THEN Idx(Id("a"), Num(w[1] + w[3]))
                         ELSE Idx(Id("b"), Num(w[3])))>>)]

ArrayPrograms ==
    << \* [1][true]
       Program(<<ES(Idx(Upto(1), True))>>),
       \* 1[0]
       Program(<<ES(Idx(Num(1), Num(0)))>>),
       \* u[0]
       Program(<<ES(Idx(Id("u"), Num(0)))>>),
       \* [1, 2][u]
       Program(<<ES(Idx(Upto(2), Id("u")))>>),
       \* let a = [1, 2, 3]; a[1:]
       Program(<<Let("a", Upto(3)), Empty, ES(Slc(Id("a"), Num(1), NilNode))>>),
       \* let a = [1, 2, 3]; a[2:1]
       Program(<<Let("a", Upto(3)), Empty, ES(Slc(Id("a"), Num(2), Num(1)))>>),
       \* let a = [1, 2, 3]; a[0:5]
       Program(<<Let("a", Upto(3)), Empty, ES(Slc(Id("a"), Num(0), Num(5)))>>),
       \* let a = [1, 2, 3]; a[3:3]
       Program(<<Let("a", Upto(3)), Empty, ES(Slc(Id("a"), Num(3), Num(3)))>>),
       \* 1[0:1]
       Program(<<ES(Slc(Num(1), Num(0), Num(1)))>>),
       \* let a = [1, 2]; a[u:1]
       Program(<<Let("a", Upto(2)), Empty, ES(Slc(Id("a"), Id("u"), Num(1)))>>),
       \* let a = [1, 2]; a[0:u]
       Program(<<Let("a", Upto(2)), Empty, ES(Slc(Id("a"), Num(0), Id("u")))>>),
       \* let a = [1, 2]; a[1] += 5; a[1]
       Program(<<Let("a", Upto(2)), Empty,
                 ES(AsgIdx(Idx(Id("a"), Num(1)), "+=", Num(5))), Empty,
                 ES(Idx(Id("a"), Num(1)))>>),
       \* let a = [1, 2]; a[2] = 5
       Program(<<Let("a", Upto(2)), Empty,
                 ES(AsgIdx(Idx(Id("a"), Num(2)), "=", Num(5)))>>),
       \* let a = [1, 2]; a[0] /= 0
       Program(<<Let("a", Upto(2)), Empty,
                 ES(AsgIdx(Idx(Id("a"), Num(0)), "/=", Num(0)))>>),
       \* let a = [true]; a[0] += 1
       Program(<<Let("a", Arr(<<True>>)), Empty,
                 ES(AsgIdx(Idx(Id("a"), Num(0)), "+=", Num(1)))>>),
       \* let a = [1, 2]; a += 1
       Program(<<Let("a", Upto(2)), Empty, ES(Asg("a", "+=", Num(1)))>>),
       \* let a = [1, 2]; a = 1; a
       Program(<<Let("a", Upto(2)), Empty, ES(Asg("a", "=", Num(1))), Empty,
                 ES(Id("a"))>>),
       \* let x = 1; x[0] += 2; x
       Program(<<Let("x", Num(1)), Empty,
                 ES(AsgIdx(Idx(Id("x"), Num(0)), "+=", Num(2))), Empty, ES(Id("x"))>>),
       \* u[0] = 1
       Program(<<ES(AsgIdx(Idx(Id("u"), Num(0)), "=", Num(1)))>>),
       \* [1, 2][0] = 5
       Program(<<ES(AsgIdx(Idx(Upto(2), Num(0)), "=", Num(5)))>>),
       \* let a = [[1, 2], 3]; a[0][1] = 7; a[0][1]
       Program(<<Let("a", Arr(<<Upto(2), Num(3)>>)), Empty,
                 ES(AsgIdx(Idx(Idx(Id("a"), Num(0)), Num(1)), "=", Num(7))), Empty,
                 ES(Idx(Idx(Id("a"), Num(0)), Num(1)))>>),
       \* len([1, 2])
       Program(<<ES(Call("len", <<Upto(2)>>))>>) >>

MethodPrograms ==
    << \* let a = [1]; a.push(u); len(a)
       Program(<<Let("a", Upto(1)), Empty, ES(Mth(Id("a"), "push", <<Id("u")>>)), Empty,
                 ES(Call("len", <<Id("a")>>))>>),
       \* let a = [1]; a.push(2, u); a
       Program(<<Let("a", Upto(1)), Empty,
                 ES(Mth(Id("a"), "push", <<Num(2), Id("u")>>))>>),
       \* let a = [1]; a.push(2, 3); a[2]
       Program(<<Let("a", Upto(1)), Empty,
                 ES(Mth(Id("a"), "push", <<Num(2), Num(3)>>)), Empty,
                 ES(Idx(Id("a"), Num(2)))>>),
       \* let a = [1, 2, 3]; let b = a[0:1]; b.push(9); a[1]
       Program(<<Let("a", Upto(3)), Empty, Let("b", Slc(Id("a"), Num(0), Num(1))), Empty,
                 ES(Mth(Id("b"), "push", <<Num(9)>>)), Empty, ES(Idx(Id("a"), Num(1)))>>),
       \* let a = [1]; a.pop(); a.pop()
       Program(<<Let("a", Upto(1)), Empty, ES(Mth(Id("a"), "pop", << >>)), Empty,
                 ES(Mth(Id("a"), "pop", << >>))>>),
       \* let a = [1]; a.pop(u)
       Program(<<Let("a", Upto(1)), Empty, ES(Mth(Id("a"), "pop", <<Id("u")>>))>>),
       \* let a = [1]; a.x()
       Program(<<Let("a", Upto(1)), Empty, ES(Mth(Id("a"), "x", << >>))>>),
       \* 1.push(2)
       Program(<<ES(Mth(Num(1), "push", <<Num(2)>>))>>),
       \* u.push(2)
       Program(<<ES(Mth(Id("u"), "push", <<Num(2)>>))>>),
       \* let a = [1]; a.x
       Program(<<Let("a", Upto(1)), Empty,
                 ES(MethodCallExpression(Id("a"), NilNode))>>) >>

HashPrograms ==
    << \* let a = 0; {1: (a = 1), 2: (a = 2)}; a
       Program(<<Let("a", Num(0)), Empty,
                 ES(Hsh(<<Pair(Num(1), Asg("a", "=", Num(1))),
                          Pair(Num(2), Asg("a", "=", Num(2)))>>)), Empty,
                 ES(Id("a"))>>),
       \* {1: 10, 1: 20}[1]
       Program(<<ES(Idx(Hsh(<<Pair(Num(1), Num(10)), Pair(Num(1), Num(20))>>),
                        Num(1)))>>),
       \* {1: 10, true: 20, x: 30}[true]
       Program(<<ES(Idx(Hsh(<<Pair(Num(1), Num(10)), Pair(True, Num(20)),
                              Pair(Id("x"), Num(30))>>), True))>>),
       \* {}[1]
       Program(<<ES(Idx(Hsh(<< >>), Num(1)))>>),
       \* {[1]: 2}
       Program(<<ES(Hsh(<<Pair(Upto(1), Num(2))>>))>>),
       \* {1: 10}[[1]]
       Program(<<ES(Idx(Hsh(<<Pair(Num(1), Num(10))>>), Upto(1)))>>),
       \* let x = {1: 10}; x[1] = 5; x[2] = 6; x[1] += 1; x[1]
       Program(<<Let("x", Hsh(<<Pair(Num(1), Num(10))>>)), Empty,
                 ES(AsgIdx(Idx(Id("x"), Num(1)), "=", Num(5))), Empty,
                 ES(AsgIdx(Idx(Id("x"), Num(2)), "=", Num(6))), Empty,
                 ES(AsgIdx(Idx(Id("x"), Num(1)), "+=", Num(1))), Empty,
                 ES(Idx(Id("x"), Num(1)))>>),
       \* let x = {1: 10}; x[2] += 1
       Program(<<Let("x", Hsh(<<Pair(Num(1), Num(10))>>)), Empty,
                 ES(AsgIdx(Idx(Id("x"), Num(2)), "+=", Num(1)))>>),
       \* let x = {1: [1, 2]}; x[1][5] = 7
       Program(<<Let("x", Hsh(<<Pair(Num(1), Upto(2))>>)), Empty,
                 ES(AsgIdx(Idx(Idx(Id("x"), Num(1)), Num(5)), "=", Num(7)))>>),
       \* let x = {1: [1, 2]}; x[1][1] = 7; x[1][1]
       Program(<<Let("x", Hsh(<<Pair(Num(1), Upto(2))>>)), Empty,
                 ES(AsgIdx(Idx(Idx(Id("x"), Num(1)), Num(1)), "=", Num(7))), Empty,
                 ES(Idx(Idx(Id("x"), Num(1)), Num(1)))>>),
       \* let x = {1: 10}; x.push(1)
       Program(<<Let("x", Hsh(<<Pair(Num(1), Num(10))>>)), Empty,
                 ES(Mth(Id("x"), "push", <<Num(1)>>))>>),
       \* len({1: 10})
       Program(<<ES(Call("len", <<Hsh(<<Pair(Num(1), Num(10))>>)>>))>>) >>

\* An `if` whose condition is an Error.
ConditionPrograms ==
    << \* let a = 0; if (u) { a = 1 }; a
       Program(<<Let("a", Num(0)), Empty,
                 ES(If1(Id("u"), <<ES(Asg("a", "=", Num(1)))>>)), Empty,
                 ES(Id("a"))>>),
       \* let a = 0; if (u) { a = 1 } else { a = 2 }; a
       Program(<<Let("a", Num(0)), Empty,
                 ES(IfExpression(Id("u"),
                                 BlockStatement(<<ES(Asg("a", "=", Num(1)))>>),
                                 BlockStatement(<<ES(Asg("a", "=", Num(2)))>>))), Empty,
                 ES(Id("a"))>>),
       \* let a = 0; if (1 + true) { a = 1 }; a
       Program(<<Let("a", Num(0)), Empty,
                 ES(If1(Bin(Num(1), "+", True), <<ES(Asg("a", "=", Num(1)))>>)), Empty,
                 ES(Id("a"))>>) >>

\* `continue` in a while loop.
ContinuePrograms ==
    << \* let i = 0; while (i < 3) { i += 1; continue }; i
       Program(<<Let("i", Num(0)), Empty,
                 ES(While(Bin(Id("i"), "<", Num(3)),
                          <<ES(Asg("i", "+=", Num(1))), Empty,
                            ES(ContinueExpression)>>)), Empty,
                 ES(Id("i"))>>),
       \* let i = 0; while (i < 3) { i += 1; if (i == 1) { continue } }; i
       Program(<<Let("i", Num(0)), Empty,
                 ES(While(Bin(Id("i"), "<", Num(3)),
                          <<ES(Asg("i", "+=", Num(1))), Empty, ContinueAtOne>>)),
                 Empty, ES(Id("i"))>>) >>

\* A function that yields a sentinel, called from a loop body.
SentinelPrograms ==
    << \* let a = 0; let f = function() { break }; let i = 0;
       \* while (i < 2) { i += 1; f(); a += 1 }; a
       Program(<<Let("a", Num(0)), Empty,
                 Let("f", Fn(<< >>, <<ES(BreakExpression)>>)), Empty,
                 Let("i", Num(0)), Empty,
                 ES(While(Bin(Id("i"), "<", Num(2)),
                          <<ES(Asg("i", "+=", Num(1))), Empty,
                            ES(Call("f", << >>)), Empty,
                            ES(Asg("a", "+=", Num(1)))>>)), Empty,
                 ES(Id("a"))>>),
       \* let a = 0; let f = function() { continue };
       \* for (let i = 0; i < 2; i += 1) { f(); a += 1 }; a
       Program(<<Let("a", Num(0)), Empty,
                 Let("f", Fn(<< >>, <<ES(ContinueExpression)>>)), Empty,
                 ES(For(Let("i", Num(0)), Bin(Id("i"), "<", Num(2)),
                        Asg("i", "+=", Num(1)),
                        <<ES(Call("f", << >>)), Empty,
                          ES(Asg("a", "+=", Num(1)))>>)), Empty,
                 ES(Id("a"))>>) >>

\* An increment or decrement of a variable whose value another variable was
\* bound to.
Steppers ==
    << PostfixExpression(Id("a"), "++"), PrefixExpression("++", Id("a")),
       PostfixExpression(Id("a"), "--"), PrefixExpression("--", Id("a")) >>

AliasPrograms ==
    \* let a = 1; let b = a; a++; b    (and ++a, a--, --a)
    [k \in 1..Len(Steppers) |->
        Program(<<Let("a", Num(1)), Empty, Let("b", Id("a")), Empty,
                  ES(Steppers[k]), Empty, ES(Id("b"))>>)]
    \o
    << \* let f = function(x) { x++ }; let a = 1; f(a); a
       Program(<<Let("f", Fn(<<"x">>, <<ES(PostfixExpression(Id("x"), "++"))>>)), Empty,
                 Let("a", Num(1)), Empty,
                 ES(Call("f", <<Id("a")>>)), Empty,
                 ES(Id("a"))>> ) >>

\* An assignment to an element of an Array that is a value of a Hash; the
\* index is outside 0..1 in all but the last.
NestedIndexes == <<2, -1, -3, 1>>

NestedPrograms ==
    \* let x = {1: [1, 2]}; x[1][i] = 7; x[1][1]
    [k \in 1..Len(NestedIndexes) |->
        Program(<<Let("x", Hsh(<<Pair(Num(1), Upto(2))>>)), Empty,
                  ES(AsgIdx(Idx(Idx(Id("x"), Num(1)), Lit(NestedIndexes[k])), "=", Num(7))),
                  Empty,
                  ES(Idx(Idx(Id("x"), Num(1)), Num(1)))>>)]
    \o
    \* let x = {1: [1, 2]}; x[1][i] += 7; x[1][1]
    [k \in 1..Len(NestedIndexes) |->
        Program(<<Let("x", Hsh(<<Pair(Num(1), Upto(2))>>)), Empty,
                  ES(AsgIdx(Idx(Idx(Id("x"), Num(1)), Lit(NestedIndexes[k])), "+=", Num(7))),
                  Empty,
                  ES(Idx(Idx(Id("x"), Num(1)), Num(1)))>>)]

\* A `return` in the block of an if expression that is a value.
WrapperPrograms ==
    << \* let y = if (true) { return 5 }; y
       Program(<<Let("y", If1(True, <<ReturnStatement(Num(5))>>)), Empty,
                 ES(Id("y"))>>),
       \* let a = [if (true) { return 1 }]; a[0]
       Program(<<Let("a", Arr(<<If1(True, <<ReturnStatement(Num(1))>>)>>)), Empty,
                 ES(Idx(Id("a"), Num(0)))>>),
       \* let x = {1: if (true) { return 1 }}; x[1]
       Program(<<Let("x", Hsh(<<Pair(Num(1), If1(True, <<ReturnStatement(Num(1))>>))>>)),
                 Empty, ES(Idx(Id("x"), Num(1)))>>) >>

\* delete.
DeletePrograms ==
    << \* let a = 1; delete a; a
       Program(<<Let("a", Num(1)), Empty, DeleteStatement(Id("a")), Empty,
                 ES(Id("a"))>>),
       \* let a = 1; let f = function(a) { delete a; a }; f(2)
       Program(<<Let("a", Num(1)), Empty,
                 Let("f", Fn(<<"a">>, <<DeleteStatement(Id("a")), Empty, ES(Id("a"))>>)),
                 Empty, ES(Call("f", <<Num(2)>>))>>),
       \* let a = 1; let f = function() { delete a }; f(); a
       Program(<<Let("a", Num(1)), Empty,
                 Let("f", Fn(<< >>, <<DeleteStatement(Id("a"))>>)), Empty,
                 ES(Call("f", << >>)), Empty, ES(Id("a"))>>),
       \* let a = 1; delete u; a
       Program(<<Let("a", Num(1)), Empty, DeleteStatement(Id("u")), Empty,
                 ES(Id("a"))>>),
       \* let a = [1, 2]; delete a[0]; a[0]
       Program(<<Let("a", Upto(2)), Empty,
                 DeleteStatement(Idx(Id("a"), Num(0))), Empty,
                 ES(Idx(Id("a"), Num(0)))>>),
       \* let x = {1: 10}; delete x[1]; x[1]
       Program(<<Let("x", Hsh(<<Pair(Num(1), Num(10))>>)), Empty,
                 DeleteStatement(Idx(Id("x"), Num(1))), Empty,
                 ES(Idx(Id("x"), Num(1)))>>),
       \* delete 1
       Program(<<DeleteStatement(Num(1))>>),
       \* let a = [1, 2]; delete a[2]
       Program(<<Let("a", Upto(2)), Empty,
                 DeleteStatement(Idx(Id("a"), Num(2)))>>) >>

\* The Float literal of the value n/d.
Flt(n, d) == FloatLiteral(Float(n, d))

\* Division by zero: 5 and 5.5 divided by 0 and by 0.0.
Dividends == << Num(5), Flt(11, 2) >>
Zeros == << Num(0), Flt(0, 1) >>
Dividend(k) == Dividends[(((k - 1) \div Len(Zeros)) % Len(Dividends)) + 1]
Zero(k) == Zeros[((k - 1) % Len(Zeros)) + 1]

DivisionPrograms ==
    \* 5 / 0    (and the other three pairs)
    [k \in 1 .. Len(Dividends) * Len(Zeros) |->
        Program(<<ES(Bin(Dividend(k), "/", Zero(k)))>>)]
    \o
    \* let x = 5; x /= 0; x    (and the other three pairs)
    [k \in 1 .. Len(Dividends) * Len(Zeros) |->
        Program(<<Let("x", Dividend(k)), Empty, ES(Asg("x", "/=", Zero(k))), Empty,
                  ES(Id("x"))>>)]

\* Operands of `==` and `!=` that are of two kinds, or of a kind that has no
\* equality: a is an Array, f a Function and x a Hash.
Unequals ==
    << <<Num(1), Flt(1, 1)>>, <<Flt(1, 1), Num(1)>>, <<Num(1), True>>,
       <<NullExpression, BooleanLiteral(FALSE)>>, <<Num(0), NullExpression>>,
       <<Id("a"), Id("a")>>, <<Id("f"), Id("f")>>, <<Id("x"), Id("x")>>,
       <<Id("a"), Upto(2)>>, <<Id("len"), Id("len")>> >>

EqualityPrograms ==
    \* let a = [1, 2]; let f = function() { 1 }; let x = {1: 10}; L == R
    [k \in 1 .. Len(Unequals) |->
        Program(<<Let("a", Upto(2)), Empty, Let("f", Fn(<< >>, <<ES(Num(1))>>)), Empty,
                  Let("x", Hsh(<<Pair(Num(1), Num(10))>>)), Empty,
                  ES(Bin(Unequals[k][1], "==", Unequals[k][2]))>>)]
    \o
    \* the same with L != R
    [k \in 1 .. Len(Unequals) |->
        Program(<<Let("a", Upto(2)), Empty, Let("f", Fn(<< >>, <<ES(Num(1))>>)), Empty,
                  Let("x", Hsh(<<Pair(Num(1), Num(10))>>)), Empty,
                  ES(Bin(Unequals[k][1], "!=", Unequals[k][2]))>>)]

\* Compound assignment to an element with a Float on either side.
ElementPrograms ==
    << \* let a = [1, 2]; a[0] += 0.5; a[0]
       Program(<<Let("a", Upto(2)), Empty,
                 ES(AsgIdx(Idx(Id("a"), Num(0)), "+=", Flt(1, 2))), Empty,
                 ES(Idx(Id("a"), Num(0)))>>),
       \* let a = [1.5]; a[0] /= 0.0
       Program(<<Let("a", Arr(<<Flt(3, 2)>>)), Empty,
                 ES(AsgIdx(Idx(Id("a"), Num(0)), "/=", Flt(0, 1)))>>),
       \* let x = {1: 10}; x[1] /= 4.0; x[1]
       Program(<<Let("x", Hsh(<<Pair(Num(1), Num(10))>>)), Empty,
                 ES(AsgIdx(Idx(Id("x"), Num(1)), "/=", Flt(4, 1))), Empty,
                 ES(Idx(Id("x"), Num(1)))>>),
       \* let a = 1.5; a++; -a * 2 < 0.5 % 1
       Program(<<Let("a", Flt(3, 2)), Empty, ES(PostfixExpression(Id("a"), "++")), Empty,
                 ES(Bin(Bin(PrefixExpression("-", Id("a")), "*", Num(2)), "<",
                        Bin(Flt(1, 2), "%", Num(1))))>>) >>

Programs ==
    SequencePrograms \o FunctionPrograms \o ClosurePrograms \o LetPrograms
    \o AssignPrograms \o ForPrograms \o LoopPrograms \o InfixErrorPrograms
    \o InfixPrograms \o PrefixPrograms \o IndexPrograms \o SlicePrograms
    \o ArrayPrograms \o MethodPrograms \o HashPrograms \o ConditionPrograms
    \o ContinuePrograms \o SentinelPrograms \o AliasPrograms \o NestedPrograms
    \o WrapperPrograms \o DeletePrograms \o DivisionPrograms
    \o EqualityPrograms \o ElementPrograms

----------------------------------------------------------------------------
(* A run: Eval(ctx, program, NewScope(nil)) as the driver and the tests    *)
(* call it.                                                                *)

Init ==
    /\ program \in 1..Len(Programs)
    /\ scopes = NewScope(<< >>, 0).scopes
    /\ stack = <<Act("Eval", Programs[program], 1)>>
    /\ heap = InitHeap
    /\ cancelled = FALSE
    /\ status = "running"
    /\ result = NIL
    /\ steps = 0
    /\ tokens = << >>
    /\ parser = [p |-> NewParser, Statements |-> << >>, done |-> TRUE]

Step ==
    \/ Eval
    \/ evalProgram
    \/ evalBlockStatement
    \/ evalLetStatement
    \/ evalDeleteStatement
    \/ evalIfExpression
    \/ evalWhileExpression
    \/ evalForExpression
    \/ evalAssignExpression
    \/ evalExpressions
    \/ evalCallExpression
    \/ applyFunction
    \/ evalArrayLiteral
    \/ evalIndexExpression
    \/ evalArrayIndexExpressionFunc
    \/ evalHashIndexExpressionFunc
    \/ evalSliceExpression
    \/ evalMethodCallExpression
    \/ evalHashLiteral

Next == Step \/ Cancel

Spec == Init /\ [][Next]_vars

\* The Go runtime keeps running the evaluator's goroutine.
FairSpec == Spec /\ WF_vars(Step)

----------------------------------------------------------------------------
(* Properties.                                                             *)

\* A step of the evaluator (every action but Cancel).
EvaluatorStep == cancelled' = cancelled

\* The top activation returns v to its caller, which stays where it is (or
\* the run ends with v).
Returns(v) ==
    IF Len(stack) = 1
    THEN status' = "done" /\ result' = v /\ stack' = << >>
    ELSE /\ Len(stack') = Len(stack) - 1
         /\ stack'[Len(stack')].res = v
         /\ stack'[Len(stack')].pc = stack[Len(stack) - 1].pc
         /\ status' = "running"

\* The value bound to name n in frame s, as <<type, value>>.
Bound(s, n) ==
    IF scopes[s].store[n] \in {ABSENT, NIL} THEN <<"unbound", 0>>
    ELSE <<heap[scopes[s].store[n]].type, heap[scopes[s].store[n]].value>>

\* A statement sequence has received an Error or a ReturnValue from its
\* statement top.i.
SequenceHalts ==
    /\ status = "running"
    /\ stack # << >>
    /\ top.fn \in {"evalProgram", "evalBlockStatement"}
    /\ top.pc = "stmt"
    /\ top.res # NIL
    /\ Type(heap, top.res) \in {ErrorObj, ReturnValueObj}

\* C1: the statements of a Program or Block are evaluated in source order,
\* and at the first one whose result is an Error or a ReturnValue the
\* sequence returns without evaluating anything more and without changing
\* any binding or object: a Block returns that result, a Program returns an
\* Error as it is and the value inside a ReturnValue.
C1_SequenceStopsAtFirstErrorOrReturn ==
    [][ /\ (EvaluatorStep /\ SequenceHalts) =>
            /\ heap' = heap
            /\ scopes' = scopes
            /\ Returns(IF top.fn = "evalProgram" /\ Type(heap, top.res) = ReturnValueObj
                       THEN heap[top.res].value ELSE top.res)
        /\ (/\ EvaluatorStep
            /\ stack # << >>
            /\ top.fn \in {"evalProgram", "evalBlockStatement"}
            /\ Len(stack') >= Len(stack)) =>
            /\ stack'[Len(stack)].fn = top.fn
            /\ stack'[Len(stack)].i \in {top.i, top.i + 1}
            /\ (Len(stack') > Len(stack) => top.pc = "start" /\ stack'[Len(stack)].i = top.i)
      ]_vars

\* `let a = 1; if (true) { return 2; a = 3 }; a = 5; a` has ended with 2 and
\* a is still 1.
C1_Witness ==
    /\ status = "done"
    /\ ~cancelled
    /\ program \in 1..Len(SequencePrograms)
    /\ result # NIL
    /\ Type(heap, result) = IntegerObj
    /\ heap[result].value = 2
    /\ Bound(1, "a") = <<IntegerObj, 1>>

\* The index in Programs of the k-th program of a family.
FunctionProgram(k) == Len(SequencePrograms) + k
ClosureProgram(k) == FunctionProgram(Len(FunctionPrograms)) + k
LetProgram(k) == ClosureProgram(Len(ClosurePrograms)) + k
AssignProgram(k) == LetProgram(Len(LetPrograms)) + k
ForProgram(k) == AssignProgram(Len(AssignPrograms)) + k
LoopProgram(k) == ForProgram(Len(ForPrograms)) + k
InfixErrorProgram(k) == LoopProgram(Len(LoopPrograms)) + k
IndexProgram(k) ==
    InfixErrorProgram(Len(InfixErrorPrograms)) + Len(InfixPrograms) + Len(PrefixPrograms) + k
SliceProgram(k) == IndexProgram(Len(IndexPrograms)) + k
ArrayProgram(k) == SliceProgram(Len(SlicePrograms)) + k
MethodProgram(k) == ArrayProgram(Len(ArrayPrograms)) + k
HashProgram(k) == MethodProgram(Len(MethodPrograms)) + k
ConditionProgram(k) == HashProgram(Len(HashPrograms)) + k
ContinueProgram(k) == ConditionProgram(Len(ConditionPrograms)) + k
SentinelProgram(k) == ContinueProgram(Len(ContinuePrograms)) + k
AliasProgram(k) == SentinelProgram(Len(SentinelPrograms)) + k
NestedProgram(k) == AliasProgram(Len(AliasPrograms)) + k
WrapperProgram(k) == NestedProgram(Len(NestedPrograms)) + k
DeleteProgram(k) == WrapperProgram(Len(WrapperPrograms)) + k
DivisionProgram(k) == DeleteProgram(Len(DeletePrograms)) + k
EqualityProgram(k) == DivisionProgram(Len(DivisionPrograms)) + k
ElementProgram(k) == EqualityProgram(Len(EqualityPrograms)) + k

\* The step allocates at most new objects and leaves the existing ones alone.
HeapKept == Len(heap') >= Len(heap) /\ SubSeq(heap', 1, Len(heap)) = heap

\* The top activation returns a new Error of kind t.
ReturnsNewError(t) ==
    /\ Len(heap') = Len(heap) + 1
    /\ SubSeq(heap', 1, Len(heap)) = heap
    /\ heap'[Len(heap')].type = ErrorObj
    /\ heap'[Len(heap')].value = t
    /\ Returns(Len(heap'))

\* Every binding but that of name n in frame f is as it was.
OnlyChanges(f, n) ==
    /\ Len(scopes') = Len(scopes)
    /\ \A s \in 1..Len(scopes) :
          /\ scopes'[s].parentScope = scopes[s].parentScope
          /\ \A m \in Names : (s # f \/ m # n) => scopes'[s].store[m] = scopes[s].store[m]

\* The nearest frame from s up the chain of parents that binds n; 0 if none.
RECURSIVE Binder(_, _)
Binder(s, n) ==
    IF s = 0 THEN 0
    ELSE IF scopes[s].store[n] # ABSENT THEN s
    ELSE Binder(scopes[s].parentScope, n)

\* C2: a `return` executed inside a function body, however deep in
\* if-blocks and loops, ends only that call: what the call hands to its
\* caller is never a ReturnValue wrapper, and the caller goes on with its
\* next statements (in `let a = 0; let f = function(x) { BODY; a = 9; 7 };
\* f(1); a += 1; a` the run ends with a = 1).
C2_ReturnEndsOnlyTheCall ==
    [][ /\ (/\ EvaluatorStep
            /\ status = "running"
            /\ stack # << >>
            /\ top.fn = "applyFunction"
            /\ top.pc = "body"
            /\ Len(stack) > 1) =>
             \/ stack'[Len(stack')].res = NIL
             \/ heap'[stack'[Len(stack')].res].type # ReturnValueObj
        /\ (/\ status' = "done"
            /\ ~cancelled'
            /\ program \in FunctionProgram(1)..FunctionProgram(Len(FunctionPrograms))) =>
             /\ scopes'[1].store["a"] \notin {ABSENT, NIL}
             /\ heap'[scopes'[1].store["a"]].type = IntegerObj
             /\ heap'[scopes'[1].store["a"]].value = 1
      ]_vars

\* A Function is about to be applied to enough arguments.
CallStarts ==
    /\ status = "running"
    /\ stack # << >>
    /\ top.fn = "applyFunction"
    /\ top.pc = "start"
    /\ Type(heap, top.x) = FunctionObj
    /\ Len(heap[top.x].value.Parameters) <= Len(top.args)

\* C3: a call of a Function makes one new frame whose parent is the scope
\* the Function captured, binds exactly the parameters there, to the
\* arguments, changes no existing frame (the caller's and the captured one
\* included), and evaluates the body in the new frame; so free names of the
\* body are looked up along the defining chain, not the caller's.
C3_CallBindsInFreshFrameUnderCapturedScope ==
    [][ (EvaluatorStep /\ CallStarts) =>
          LET function == heap[top.x].value
              n == Len(scopes) + 1
          IN  /\ Len(scopes') = n
              /\ SubSeq(scopes', 1, Len(scopes)) = scopes
              /\ scopes'[n].parentScope = function.Scope
              /\ \A i \in 1..Len(function.Parameters) :
                    scopes'[n].store[function.Parameters[i]] = top.args[i]
              /\ \A m \in Names :
                    (\A i \in 1..Len(function.Parameters) : function.Parameters[i] # m)
                       => scopes'[n].store[m] = ABSENT
              /\ heap' = heap
              /\ Len(stack') = Len(stack) + 1
              /\ stack'[Len(stack')].fn = "Eval"
              /\ stack'[Len(stack')].s = n
      ]_vars

\* `let x = 1; let f = function(y) { x + y }; let g = function(x) { f(10) };
\* g(100)` has ended with 11: the x of f's body was the global x, not g's.
C3_Witness ==
    /\ status = "done"
    /\ ~cancelled
    /\ program = ClosureProgram(1)
    /\ result # NIL
    /\ Type(heap, result) = IntegerObj
    /\ heap[result].value = 11
    /\ Len(scopes) = 3
    /\ scopes[3].parentScope = 1
    /\ scopes[2].parentScope = 1

\* C4: `let x = e` yields REDEFINE, without evaluating e or changing
\* anything, exactly when the current frame binds x (a binding in an
\* ancestor frame does not count); otherwise e is evaluated, and then an
\* Error from e is the result and nothing is bound, while any other value
\* is bound to x in the current frame only, ancestors' bindings of x staying
\* as they were, shadowed.
C4_LetRedefineOnlyInCurrentFrame ==
    [][ (/\ EvaluatorStep
         /\ status = "running"
         /\ stack # << >>
         /\ top.fn = "evalLetStatement") =>
          LET x == top.node.Name.Value IN
          /\ (top.pc = "start" /\ scopes[top.s].store[x] # ABSENT) =>
                ReturnsNewError("REDEFINE") /\ scopes' = scopes
          /\ (top.pc = "start" /\ scopes[top.s].store[x] = ABSENT) =>
                /\ scopes' = scopes
                /\ heap' = heap
                /\ Len(stack') = Len(stack) + 1
                /\ stack'[Len(stack)].pc = "value"
          /\ (top.pc = "value" /\ top.res # NIL /\ Type(heap, top.res) = ErrorObj) =>
                /\ scopes' = scopes
                /\ heap' = heap
                /\ Returns(top.res)
          /\ (top.pc = "value" /\ top.res # NIL /\ Type(heap, top.res) # ErrorObj) =>
                /\ OnlyChanges(top.s, x)
                /\ scopes'[top.s].store[x] = top.res
                /\ heap' = heap
                /\ Returns(top.res)
      ]_vars

\* `let a = 1; let f = function() { let a = 2; a }; f(); a` has ended with 1:
\* the let in f's frame shadowed the global a and left it alone.
C4_Witness ==
    /\ status = "done"
    /\ ~cancelled
    /\ program = LetProgram(2)
    /\ result # NIL
    /\ Type(heap, result) = IntegerObj
    /\ heap[result].value = 1
    /\ Len(scopes) = 2
    /\ Bound(2, "a") = <<IntegerObj, 2>>
    /\ Bound(1, "a") = <<IntegerObj, 1>>

\* An assignment to an Identifier has evaluated its right-hand side.
AssignReady ==
    /\ status = "running"
    /\ stack # << >>
    /\ top.fn = "evalAssignExpression"
    /\ top.node.Name.kind = "Identifier"
    /\ top.pc = "value"
    /\ top.res # NIL

\* C5 as stated: an assignment to an Identifier that no frame of the chain
\* binds yields UNKNOWNIDENT and binds nothing.
C5_UnboundAlwaysUnknownIdent ==
    [][ (/\ EvaluatorStep
         /\ ~cancelled
         /\ AssignReady
         /\ Binder(top.s, top.node.Name.Value) = 0) =>
          ReturnsNewError("UNKNOWNIDENT") /\ scopes' = scopes
      ]_vars

\* C5: once its right-hand side has evaluated to a value that is not an
\* Error, an assignment (`=` or compound) to an Identifier that no frame of
\* the chain binds yields UNKNOWNIDENT and binds nothing; when some frame
\* binds the name, only the binding in the nearest such frame can change:
\* `=` puts the value there, a compound operator puts its result there
\* unless it yields an Error, and then nothing changes.  An Error from the
\* right-hand side is itself the result and nothing changes.
C5_AssignResetsNearestBinding ==
    [][ (EvaluatorStep /\ AssignReady) =>
          LET x == top.node.Name.Value
              f == Binder(top.s, x)
              r == stack'[Len(stack')].res
          IN  /\ Type(heap, top.res) = ErrorObj =>
                    scopes' = scopes /\ heap' = heap /\ Returns(top.res)
              /\ (Type(heap, top.res) # ErrorObj /\ f = 0) =>
                    ReturnsNewError("UNKNOWNIDENT") /\ scopes' = scopes
              /\ (Type(heap, top.res) # ErrorObj /\ f # 0) =>
                    /\ OnlyChanges(f, x)
                    /\ HeapKept
                    /\ Len(stack) > 1
                    /\ Returns(r)
                    /\ top.node.Operator = "=" => r = top.res
                    /\ IF heap'[r].type = ErrorObj
                       THEN scopes' = scopes
                       ELSE scopes'[f].store[x] = r
      ]_vars

\* `let a = 1; let f = function() { a = 2 }; f(); a` has ended with 2: the
\* assignment in f's frame went to the global a.
C5_Witness ==
    /\ status = "done"
    /\ ~cancelled
    /\ program = AssignProgram(3)
    /\ result # NIL
    /\ Type(heap, result) = IntegerObj
    /\ heap[result].value = 2
    /\ Bound(1, "a") = <<IntegerObj, 2>>
    /\ Bound(2, "a") = <<"unbound", 0>>

\* C6: in a `for` loop, with or without an update or a condition clause, a
\* Continue from the body is followed by the evaluation of the update and
\* then of the condition, an Error from either ending the loop with that
\* Error, and the loop never ends in a host-level fault.
C6_ForContinueNeverFaults ==
    [][ (/\ EvaluatorStep
         /\ status = "running"
         /\ stack # << >>
         /\ top.fn = "evalForExpression"
         /\ top.pc \in {"cupdate", "ccond"}) =>
          /\ status' # "panic"
          /\ (top.res # NIL /\ Type(heap, top.res) = ErrorObj) => Returns(top.res)
          /\ (top.pc = "cupdate" /\ (top.res = NIL \/ Type(heap, top.res) # ErrorObj)) =>
                /\ Len(stack') = Len(stack) + 1
                /\ stack'[Len(stack)].pc = "ccond"
          /\ (top.pc = "ccond" /\ (top.res = NIL \/ Type(heap, top.res) # ErrorObj)) =>
                \/ Len(stack') = Len(stack) + 1 /\ stack'[Len(stack)].pc = "body"
                \/ Len(stack') < Len(stack)
      ]_vars

\* The frame of a `for` loop that is running in the activation at depth d.
ForRunning(d) ==
    /\ d \in 1..Len(stack)
    /\ stack[d].fn = "evalForExpression"
    /\ stack[d].pc # "start"

\* C7: a `for` loop makes one frame, under the enclosing scope, for the
\* whole loop, and for each iteration one new, empty frame under the
\* loop's, in which the body runs (so a `let` of the body never finds its
\* name bound); starting an iteration changes no existing frame (so the
\* binding of the init clause keeps its value), and as long as the loop
\* runs the enclosing frame gets no binding it did not have.
C7_ForFramePerLoopAndPerIteration ==
    [][ EvaluatorStep =>
          /\ (/\ status = "running"
              /\ stack # << >>
              /\ top.fn = "evalForExpression"
              /\ status' = "running"
              /\ Len(stack') >= Len(stack)) =>
                LET a == stack'[Len(stack)] IN
                /\ SubSeq(scopes', 1, Len(scopes)) = scopes
                /\ heap' = heap
                /\ top.pc = "start" =>
                      /\ a.sub = Len(scopes) + 1
                      /\ scopes'[a.sub].parentScope = top.s
                      /\ a.pc = "init" =>
                            /\ Len(scopes') = Len(scopes) + 1
                            /\ stack'[Len(stack')].s = a.sub
                /\ top.pc # "start" => a.sub = top.sub
                /\ (a.pc = "body" /\ Len(stack') = Len(stack) + 1) =>
                      /\ a.it = Len(scopes')
                      /\ a.it > Len(scopes)
                      /\ a.it > a.sub
                      /\ scopes'[a.it].parentScope = a.sub
                      /\ \A m \in Names : scopes'[a.it].store[m] = ABSENT
                      /\ stack'[Len(stack')].s = a.it
                /\ (a.pc # "body" /\ top.pc # "start") => scopes' = scopes
          /\ \A d \in 1..Len(stack) :
                ForRunning(d) =>
                   \A m \in Names :
                      scopes[stack[d].s].store[m] = ABSENT
                         => scopes'[stack[d].s].store[m] = ABSENT
      ]_vars

\* `let a = 0; for (let i = 0; i < 2; i += 1) { let b = i; a += b }; b` has
\* ended with an Error for b: i lives in the loop's frame with its last
\* value, each iteration had its own b, and the global frame has neither.
C7_Witness ==
    /\ status = "done"
    /\ ~cancelled
    /\ program = ForProgram(5)
    /\ result # NIL
    /\ Type(heap, result) = ErrorObj
    /\ heap[result].value = "UNKNOWNIDENT"
    /\ Len(scopes) = 4
    /\ Bound(1, "a") = <<IntegerObj, 1>>
    /\ Bound(1, "i") = <<"unbound", 0>>
    /\ Bound(1, "b") = <<"unbound", 0>>
    /\ Bound(2, "i") = <<IntegerObj, 2>>
    /\ Bound(3, "b") = <<IntegerObj, 0>>
    /\ Bound(4, "b") = <<IntegerObj, 1>>

\* C8: Eval entered on any node (nil included) when the context is already
\* cancelled returns a new TIMEOUT Error at once: no activation is started
\* for a sub-node, and no binding and no existing object changes.
C8_CancelledEvalReturnsTimeout ==
    [][ (/\ EvaluatorStep
         /\ cancelled
         /\ status = "running"
         /\ stack # << >>
         /\ top.fn = "Eval"
         /\ top.pc = "start") =>
          /\ ReturnsNewError("TIMEOUT")
          /\ scopes' = scopes
      ]_vars

\* A run cancelled before its first step has ended with a TIMEOUT Error and
\* an empty global frame.
C8_Witness ==
    /\ status = "done"
    /\ cancelled
    /\ steps = 1
    /\ result = Len(InitHeap) + 1
    /\ Len(heap) = Len(InitHeap) + 1
    /\ heap[result].type = ErrorObj
    /\ heap[result].value = "TIMEOUT"
    /\ Len(scopes) = 1
    /\ \A m \in Names : scopes[1].store[m] = ABSENT

\* A `while` or `for` loop has received the result of its body.
LoopBodyDone ==
    /\ status = "running"
    /\ stack # << >>
    /\ top.fn \in {"evalWhileExpression", "evalForExpression"}
    /\ top.pc = "body"

\* C9: once the context is cancelled no loop keeps running: a loop that
\* gets an Error from its body (as every evaluation entered after the
\* cancellation yields) returns it without another iteration, whatever it
\* was doing the steps it takes end with a return, and the whole
\* evaluation eventually terminates.
C9_CancelledEvaluationTerminates ==
    /\ [][ (EvaluatorStep /\ cancelled /\ LoopBodyDone
              /\ top.res # NIL /\ Type(heap, top.res) = ErrorObj) =>
             /\ Returns(top.res)
             /\ scopes' = scopes ]_vars
    /\ (cancelled ~> status # "running")

\* `let f = function() { while (true) { 1 } }; f()` was cancelled in the loop
\* and has ended with the TIMEOUT Error.
C9_Witness ==
    /\ status = "done"
    /\ cancelled
    /\ program = LoopProgram(4)
    /\ steps > 30
    /\ result # NIL
    /\ Type(heap, result) = ErrorObj
    /\ heap[result].value = "TIMEOUT"

\* C10: for every binary operator, when the left operand of `L op R` has
\* evaluated to an Error the expression returns that Error without
\* evaluating R, so that no effect of R takes place (`let a = 1; L op R; a`
\* with R one of a = 2, a++ ends with a = 1).
C10_ErrorLeftSkipsRight ==
    [][ /\ (/\ EvaluatorStep
            /\ ~cancelled
            /\ status = "running"
            /\ stack # << >>
            /\ top.fn = "Eval"
            /\ top.pc = "InfixLeft"
            /\ top.res # NIL
            /\ Type(heap, top.res) = ErrorObj) =>
             /\ Returns(top.res)
             /\ heap' = heap
             /\ scopes' = scopes
        /\ (/\ status' = "done"
            /\ ~cancelled'
            /\ program \in InfixErrorProgram(1)..InfixErrorProgram(Len(InfixErrorPrograms))) =>
             /\ scopes'[1].store["a"] \notin {ABSENT, NIL}
             /\ heap'[scopes'[1].store["a"]].value = 1
      ]_vars

\* C13: a call of a Function with fewer arguments than parameters yields an
\* Error value (wrong number of arguments) without a host-level fault and
\* without binding anything.
C13_TooFewArgumentsYieldError ==
    [][ (/\ EvaluatorStep
         /\ status = "running"
         /\ stack # << >>
         /\ top.fn = "applyFunction"
         /\ top.pc = "start"
         /\ Type(heap, top.x) = FunctionObj
         /\ Len(heap[top.x].value.Parameters) > Len(top.args)) =>
          /\ status' # "panic"
          /\ ReturnsNewError("ARGUMENTNUMERROR")
          /\ scopes' = scopes
      ]_vars

\* The top activation has dereferenced a nil Object: the value of an absent
\* node or of an empty block.
NilFault ==
    /\ status = "panic"
    /\ stack # << >>
    /\ top.fn # "applyFunction"
    /\ \/ top.res = NIL
       \/ top.fn = "Eval" /\ top.pc = "InfixRight" /\ top.x = NIL

\* C14: whatever tree the parser returned, absent sub-nodes included (a
\* `let` without initializer, a bare `return;`, an empty block), Eval
\* returns an Object and no host-level fault comes from an absent node.
C14_AbsentNodesNeverFault == ~NilFault

\* The index function is about to index the Array top.x by the Integer
\* top.res on behalf of a read `left[index]`.
IndexReady ==
    /\ status = "running"
    /\ stack # << >>
    /\ top.fn = "evalArrayIndexExpressionFunc"
    /\ top.pc = "index"
    /\ top.f = "index"
    /\ top.res # NIL
    /\ Type(heap, top.res) = IntegerObj
    /\ Type(heap, top.x) = ArrayObj

\* Element i of the elements elems, a negative i counted from the end.
Indexed(elems, i) == elems[IF i >= 0 THEN i + 1 ELSE i + Len(elems) + 1]

\* The length and the index of the k-th program of IndexPrograms.
IndexLength(k) == (k - 1) \div (2 * MaxLen + 3)
IndexIndex(k) == ((k - 1) % (2 * MaxLen + 3)) - (MaxLen + 1)

C19_OutOfRangeIndexIsNull ==
    (/\ program \in {IndexProgram(3 * (2 * MaxLen + 3) + MaxLen + 1 + 4),
                     IndexProgram(3 * (2 * MaxLen + 3) + MaxLen + 1)}
     /\ ~cancelled
     /\ status # "running") => (status = "done" /\ result = NULL)

\* The Array bound to name n in the global frame.
GlobalArray(n) == scopes[1].store[n]

\* C20: after `let b = a[s:e]` the slice and the original share storage:
\* `b[i] = v` with 0 <= i < e-s makes a[s+i] read v, and `a[s+i] = v` makes
\* b[i] read v.  Checked for a = [1, .., MaxLen], every window 0 <= s < e <=
\* MaxLen and every i in it: the read that follows the write yields v, and
\* a[s+i] and b[i] are the one object written.
C20_SliceSharesStorage ==
    \A k \in 1 .. Len(SlicePrograms) :
       (program = SliceProgram(k) /\ ~cancelled /\ status # "running") =>
          LET w == WindowSeq[((k - 1) % Len(WindowSeq)) + 1] IN
          /\ status = "done"
          /\ heap[result].type = IntegerObj
          /\ heap[result].value = Written
          /\ Elements(heap, GlobalArray("a"))[w[1] + w[3] + 1] = result
          /\ Elements(heap, GlobalArray("b"))[w[3] + 1] = result
          /\ heap[GlobalArray("b")].value.len = w[2] - w[1]

\* A write through a slice that starts past the first element has been read
\* back through the original, and a write through the original through the
\* slice.
C20_Witness ==
    /\ \E k \in 1 .. Len(SlicePrograms) :
          /\ program = SliceProgram(k)
          /\ WindowSeq[((k - 1) % Len(WindowSeq)) + 1][1] > 0
          /\ WindowSeq[((k - 1) % Len(WindowSeq)) + 1][3] > 0
    /\ ~cancelled
    /\ status = "done"
    /\ heap[result].type = IntegerObj
    /\ heap[result].value = Written

\* C12: in a method call obj.name(args) the first argument that evaluates
\* to an Error makes the call yield that Error without invoking the method:
\* the step that follows the evaluation of the arguments returns the Error
\* and changes no object (the receiver keeps its length and elements).
C12_ErrorArgumentSkipsMethod ==
    [][ (/\ EvaluatorStep /\ status = "running" /\ stack # << >> /\ ~cancelled
         /\ top.fn = "evalMethodCallExpression" /\ top.pc = "args"
         /\ Len(top.args) = 1
         /\ Type(heap, top.args[1]) = ErrorObj) =>
          /\ heap' = heap
          /\ Returns(top.args[1]) ]_vars

\* The first of the entries S of a hash literal in the order written.
First(S) == CHOOSE m \in S : \A n \in S : m <= n

\* C11: the key/value pairs of a hash literal are evaluated in the order
\* they are written, so their side effects and the winner among pairs with
\* one key are the same on every run: evalHashLiteral always visits the
\* first pair it has not visited yet, `let a = 0; {1: (a = 1), 2: (a = 2)};
\* a` ends with 2, and `{1: 10, 1: 20}[1]` with 20.
C11_HashPairsInSourceOrder ==
    /\ [][ (/\ EvaluatorStep /\ status = "running" /\ stack # << >> /\ ~cancelled
            /\ top.fn = "evalHashLiteral" /\ top.pc = "range"
            /\ top.todo # {}) =>
             stack'[Len(stack)].i = First(top.todo) ]_vars
    /\ [] ((program = HashProgram(1) /\ ~cancelled /\ status # "running") =>
              (status = "done" /\ heap[result].value = 2))
    /\ [] ((program = HashProgram(2) /\ ~cancelled /\ status # "running") =>
              (status = "done" /\ heap[result].value = 20))

----------------------------------------------------------------------------
(* The parser.                                                             *)

\* The precedence level the table of the language gives each operator token.
LevelTable ==
    [t \in {"=", "+=", "-=", "*=", "/=", "&&", "||", "==", "!=", "<", "<=", ">",
            ">=", ":", "+", "-", "%", "*", "/", "(", ".", "[", "++", "--"} |->
        CASE t \in {"=", "+=", "-=", "*=", "/="} -> ASSIGN
          [] t = "&&" -> AND
          [] t = "||" -> OR
          [] t \in {"==", "!="} -> EQUALS
          [] t \in {"<", "<=", ">", ">="} -> LESSGREATER
          [] t = ":" -> SLICE
          [] t \in {"+", "-"} -> SUM
          [] t \in {"%", "*", "/"} -> PRODUCT
          [] t \in {"(", "."} -> CALL
          [] t = "[" -> INDEX
          [] t \in {"++", "--"} -> INCRDECR]

\* ParseProgram has returned the Program of one expression statement e,
\* without a syntax error.
ParsedAs(e) ==
    /\ parser.Statements = <<ExpressionStatement(e)>>
    /\ parser.p.errors = << >>

\* The operator at which a chain x1 op x2 op ... splits first: the one of
\* the lowest level, and of these the last.
Weakest(ts) ==
    CHOOSE i \in {j \in DOMAIN ts : j % 2 = 0} :
        \A j \in {k \in DOMAIN ts : k % 2 = 0} :
            \/ LevelTable[ts[i].Type] < LevelTable[ts[j].Type]
            \/ LevelTable[ts[i].Type] = LevelTable[ts[j].Type] /\ j <= i

\* The grouping of a chain by the levels of its operators.
RECURSIVE Grouping(_)
Grouping(ts) ==
    IF Len(ts) = 1 THEN Identifier(ts[1].Literal)
    ELSE InfixExpression(Grouping(SubSeq(ts, 1, Weakest(ts) - 1)),
                         ts[Weakest(ts)].Literal,
                         Grouping(SubSeq(ts, Weakest(ts) + 1, Len(ts))))

\* An operand: the postfix operator, call or index applies to the name and
\* the prefix operator to the result.
Primary(name, post) ==
    CASE post = << >> -> Identifier(name)
      [] post # << >> /\ post[1].Type \in {"++", "--"} ->
             PostfixExpression(Identifier(name), post[1].Literal)
      [] post # << >> /\ post[1].Type = "(" -> CallExpression(Identifier(name), << >>)
      [] post # << >> /\ post[1].Type = "[" ->
             IndexExpression(Identifier(name), IntegerLiteral(0))

OperandNode(pre, name, post) ==
    IF pre = << >> THEN Primary(name, post)
    ELSE PrefixExpression(pre[1].Literal, Primary(name, post))

UnaryForms ==
    PrefixForms \X PostfixForms \X ChainOperators \X PrefixForms \X PostfixForms

MinusATimesB == <<Op("-"), IDENT("a"), Op("*"), IDENT("b")>>
APlusPlusMinusBMinusMinus ==
    <<IDENT("a"), Op("++"), Op("-"), IDENT("b"), Op("--")>>
APlusBPlusCTimesD ==
    <<IDENT("a"), Op("+"), IDENT("b"), Op("+"), IDENT("c"), Op("*"), IDENT("d")>>

\* C16: an expression is parsed, and so rendered, with the grouping the
\* precedence table gives: a chain of binary operators splits at its
\* operator of lowest level, at the last of these when several have that
\* level (higher binds tighter, equal levels group to the left); a prefix
\* operator applies to its operand before any binary operator does, and a
\* postfix `++`/`--`, a call and an index apply before the prefix operator;
\* `-a * b` renders `((-a) * b)`, `a ++ - b--` renders `((a++) - (b--))` and
\* `a + b + c * d` renders `((a + b) + (c * d))`.
C16_GroupingFollowsPrecedence ==
    parser.done =>
        /\ tokens \in Chains => ParsedAs(Grouping(tokens))
        /\ tokens \in Unaries =>
               \A form \in UnaryForms :
                   tokens = Operand(form[1], "a", form[2]) \o <<Op(form[3])>>
                                \o Operand(form[4], "b", form[5]) =>
                       ParsedAs(InfixExpression(OperandNode(form[1], "a", form[2]),
                                                form[3],
                                                OperandNode(form[4], "b", form[5])))
        /\ tokens = MinusATimesB =>
               String(Program(parser.Statements)) = "((-a) * b)"
        /\ tokens = APlusPlusMinusBMinusMinus =>
               String(Program(parser.Statements)) = "((a++) - (b--))"
        /\ tokens = APlusBPlusCTimesD =>
               String(Program(parser.Statements)) = "((a + b) + (c * d))"

C16_Witness ==
    /\ tokens = APlusBPlusCTimesD
    /\ parser.done
    /\ String(Program(parser.Statements)) = "((a + b) + (c * d))"


\* C17: the precedence table of the parser gives every operator token the
\* level the table of the language lists, the five assignment tokens the
\* level ASSIGN among them; so in `x op y as= z`, with op a binary operator
\* and as= an assignment operator, the assignment is never parsed as the
\* right operand of op.
C17_AssignmentTokensAtAssignLevel ==
    (parser.done /\ tokens \in Assignments) =>
        /\ DOMAIN precedences = DOMAIN LevelTable
        /\ \A t \in DOMAIN LevelTable : precedences[t] = LevelTable[t]
        /\ \A i \in DOMAIN parser.Statements :
               (/\ parser.Statements[i].kind = "ExpressionStatement"
                /\ parser.Statements[i].Expression.kind = "InfixExpression") =>
                   parser.Statements[i].Expression.Right.kind # "AssignExpression"


\* C15: on every token sequence ParseProgram comes to its end and returns
\* the Program and the syntax errors: no construct, however malformed,
\* makes the parser panic (the statement loop goes on after it), so the
\* parser stops only by returning.
C15_ParseProgramReturns == ~Parsing => (parser.done /\ ~parser.p.fault)

\* C29: when the condition of an `if` expression has evaluated to an Error
\* the if expression yields that Error and evaluates neither block: the step
\* of evalIfExpression that receives the condition returns it.
C29_ErrorConditionYieldsError ==
    [][ (/\ EvaluatorStep /\ status = "running" /\ stack # << >> /\ ~cancelled
         /\ top.fn = "evalIfExpression" /\ top.pc = "cond"
         /\ Type(heap, top.res) = ErrorObj) =>
          Returns(top.res) ]_vars

\* The step of evalWhileExpression starts an execution of the body.
BodyStarts ==
    /\ top.fn = "evalWhileExpression"
    /\ Len(stack') = Len(stack) + 1
    /\ stack'[Len(stack)].pc = "body"

\* C26: in a while loop every execution of the body, the one after a
\* `continue` included, directly follows an evaluation of the condition (the
\* body is never started from the end of the previous execution), and in
\* `let i = 0; while (i < 3) { i += 1; continue }` the body starts only
\* while i < 3.
C26_BodyFollowsCondition ==
    [][ (/\ EvaluatorStep /\ status = "running" /\ stack # << >> /\ ~cancelled
         /\ BodyStarts) =>
          /\ top.pc = "cond"
          /\ program = ContinueProgram(1) => Bound(1, "i")[2] < 3 ]_vars

\* C27: a Break or a Continue that a function body yields outside any loop
\* of its own stays inside the call: in `let a = 0; let f = function() {
\* break }; let i = 0; while (i < 2) { i += 1; f(); a += 1 }; a`, and in the
\* same loop written with `for` and a function that yields `continue`, the
\* caller's loop runs each of its two iterations to the end (a = 2).
C27_SentinelStaysInCall ==
    \A k \in 1..Len(SentinelPrograms) :
        (program = SentinelProgram(k) /\ ~cancelled /\ status # "running") =>
            /\ status = "done"
            /\ Type(heap, result) = IntegerObj
            /\ heap[result].value = 2

\* C28: `++` and `--`, prefix or postfix, change only the variable they are
\* applied to: `let a = 1; let b = a; a++; b` (and the same with ++a, a--,
\* --a) yields 1, and after `let f = function(x) { x++ }; let a = 1; f(a)`
\* the caller's a is still 1.
C28_IncrementChangesOnlyItsVariable ==
    \A k \in 1..Len(AliasPrograms) :
        (program = AliasProgram(k) /\ ~cancelled /\ status # "running") =>
            /\ status = "done"
            /\ Type(heap, result) = IntegerObj
            /\ heap[result].value = 1

\* The index written in NestedPrograms[k], and the element of [1, 2] it
\* stands for under the rule of direct indexing (-1 if none).
NestedIndex(k) == NestedIndexes[((k - 1) % Len(NestedIndexes)) + 1]
NestedElement(k) ==
    IF NestedIndex(k) \in 0..1 THEN NestedIndex(k)
    ELSE IF NestedIndex(k) \in -2..-1 THEN NestedIndex(k) + 2
    ELSE -1

\* C30: an assignment to x[1][i], x a Hash whose value x[1] is the Array
\* [1, 2], follows the bounds rule of direct indexing and never faults: with
\* i outside -2..1 the run ends with an INDEXERROR Error, and with i = -1 the
\* element 1 is the one written (x[1][1] is then 7, or 9 after `+= 7`).
C30_NestedAssignmentChecksBounds ==
    \A k \in 1..Len(NestedPrograms) :
        (program = NestedProgram(k) /\ ~cancelled /\ status # "running") =>
            /\ status = "done"
            /\ IF NestedElement(k) = -1
               THEN Type(heap, result) = ErrorObj /\ heap[result].value = "INDEXERROR"
               ELSE /\ Type(heap, result) = IntegerObj
                    /\ heap[result].value =
                         IF NestedElement(k) # 1 THEN 2
                         ELSE IF k <= Len(NestedIndexes) THEN 7 ELSE 9

\* C23: on every chain of frames an evaluation builds, for every frame s of
\* it and every name n, Reset(n, v) called on s overwrites the binding of n
\* in the nearest frame from s upwards that binds n, reports success and
\* changes no other binding; when no frame from s upwards binds n it reports
\* failure and changes nothing.
C23_ResetOverwritesNearestBinding ==
    \A s \in 1..Len(scopes), n \in Names, v \in {NULL, TRUEOBJ} :
        LET r == Reset(scopes, s, n, v)
            f == Binder(s, n)
        IN  IF f # 0
            THEN r.ok /\ r.scopes = [scopes EXCEPT ![f].store[n] = v]
            ELSE ~r.ok /\ r.scopes = scopes

\* `let x = 1; let f = function(x) { x = x + 1; x }; f(5); x` has ended with
\* 1: the assignment went to the x of the call's frame (now 6), under which
\* the global frame binds x as well and binds f, and no frame binds u.
C23_Witness ==
    /\ status = "done"
    /\ ~cancelled
    /\ program = ClosureProgram(2)
    /\ heap[result].value = 1
    /\ \E s \in 2..Len(scopes) :
          /\ scopes[s].parentScope = 1
          /\ Bound(s, "x") = <<IntegerObj, 6>>
          /\ Bound(1, "x") = <<IntegerObj, 1>>
          /\ Binder(s, "f") = 1
          /\ Binder(s, "u") = 0

\* C25: a ReturnValue wrapper is never held where a program can read it: in
\* every state of every run no name of any frame is bound to a ReturnValue,
\* no element of an Array and no value of a Hash is one, and the result of a
\* run that has ended is not one.
C25_ReturnValueNeverObservable ==
    /\ \A s \in 1..Len(scopes), n \in Names : Bound(s, n)[1] # ReturnValueObj
    /\ \A o \in 1..Len(heap) :
          /\ heap[o].type = ArrayObj =>
                \A k \in 1..heap[o].value.len :
                    LET e == Elements(heap, o)[k] IN
                    e # NIL => Type(heap, e) # ReturnValueObj
          /\ heap[o].type = HashObj =>
                \A k \in 1..Len(heap[o].value.Pairs) :
                    LET e == heap[o].value.Pairs[k].Value IN
                    e # NIL => Type(heap, e) # ReturnValueObj
    /\ (status = "done" /\ result # NIL) => Type(heap, result) # ReturnValueObj

\* C24: on every chain of frames an evaluation builds, for every frame s of
\* it and every name n, Delete(n) called on s removes the binding of n from
\* the nearest frame from s upwards that binds n and from no other, and
\* returns the value that was bound; Get(n) on s then returns the binding of
\* the next frame further up that binds n, or not-found when there is none.
\* When no frame from s upwards binds n, Delete reports not-found and
\* changes nothing.  `let a = 1; delete a; a` ends with UNKNOWNIDENT.
C24_DeleteRemovesNearestBinding ==
    /\ \A s \in 1..Len(scopes), n \in Names :
          LET r == Delete(scopes, s, n)
              f == Binder(s, n)
              g == IF f = 0 THEN 0 ELSE Binder(scopes[f].parentScope, n)
          IN  IF f # 0
              THEN /\ r.ok
                   /\ r.v = scopes[f].store[n]
                   /\ r.scopes = [scopes EXCEPT ![f].store[n] = ABSENT]
                   /\ Get(r.scopes, s, n).ok = (g # 0)
                   /\ g # 0 => Get(r.scopes, s, n).v = scopes[g].store[n]
              ELSE ~r.ok /\ r.scopes = scopes
    /\ (program = DeleteProgram(1) /\ ~cancelled /\ status # "running") =>
          /\ status = "done"
          /\ Type(heap, result) = ErrorObj
          /\ heap[result].value = "UNKNOWNIDENT"

\* `let a = 1; let f = function(a) { delete a; a }; f(2)` has ended with 1:
\* the frame of the call no longer binds a and the global frame still does.
C24_Witness ==
    /\ status = "done"
    /\ ~cancelled
    /\ program = DeleteProgram(2)
    /\ heap[result].value = 1
    /\ Bound(1, "a") = <<IntegerObj, 1>>
    /\ \E s \in 2..Len(scopes) :
          scopes[s].parentScope = 1 /\ scopes[s].store["a"] = ABSENT

\* C21: for every pairing of an Integer or a Float dividend with an Integer
\* or a Float zero, `5 / 0` and `let x = 5; x /= 0; x` end with a
\* DIVIDEBYZERO Error, and in the second x is still bound to its first value.
C21_ZeroDivisorYieldsError ==
    \A k \in 1..Len(DivisionPrograms) :
        (program = DivisionProgram(k) /\ ~cancelled /\ status # "running") =>
            /\ status = "done"
            /\ Type(heap, result) = ErrorObj
            /\ heap[result].value = "DIVIDEBYZERO"
            /\ k > Len(Dividends) * Len(Zeros) =>
                  /\ Bound(1, "x")[1] = (IF Dividend(k).kind = "IntegerLiteral"
                                         THEN IntegerObj ELSE FloatObj)
                  /\ Bound(1, "x")[2] = Dividend(k).Value

\* C22: `==` yields false and `!=` yields true for two operands of
\* different kinds (1 and 1.0, 1 and true, null and false, 0 and null) and
\* for two operands of a kind without equality (an Array, a Function, a
\* Hash or a builtin compared with itself, an Array with an equal Array).
C22_UnequalAcrossKinds ==
    \A k \in 1..Len(EqualityPrograms) :
        (program = EqualityProgram(k) /\ ~cancelled /\ status # "running") =>
            /\ status = "done"
            /\ result = (IF k <= Len(Unequals) THEN FALSEOBJ ELSE TRUEOBJ)
====
